---- MODULE Spec2Model ----
(***************************************************************************)
(* A model of libcontext: the marker-based injector, the configuration     *)
(* hand-over of collect_package, the export-list and parameter extraction  *)
(* of the inspector, the visibility rule, and the renderer of signatures,  *)
(* modules and whole packages.                                             *)
(*                                                                         *)
(* Text is a sequence of tokens.  Every token stands for a fixed piece of  *)
(* characters, chosen so that an occurrence of a marker in the characters  *)
(* of a text is always an occurrence of the marker's tokens in the token   *)
(* sequence: "<" occurs only as the first character of the two opening     *)
(* tokens, and the tokens " ", "\n", "-->", a package name and "x" are     *)
(* matched whole.  Python's None is the one-token sequence None, which is  *)
(* not a text.                                                             *)
(***************************************************************************)
EXTENDS Integers, Sequences, FiniteSets, TLC

VARIABLES
    \* one call of inject_into_file followed by a second one on its result
    content, package_name, existing, result, again, pc,
    \* the output file of the command line and the last content written per package
    output, latest,
    \* collect_package: the objects in memory, the caller's configuration as it
    \* was constructed, the include_private argument of every call so far and
    \* the module names of the last returned PackageInfo
    heap, initial, calls, modules,
    \* _extract_all_exports: the statements of the module body and the result
    tree, all_exports, extracted,
    \* _render_module: the ModuleInfo, and the rendered text once rendered
    module, rendered,
    \* is_public_member: the name and is_method of a call, and what it returned
    member_name, member_is_method, member_public, member_checked,
    \* _extract_parameters and the display of its result: the ast.arguments of
    \* a function definition, the ParameterInfo list, the signature text, and
    \* the text of the function rendered as a method and as a module function
    fn_args, fn_params, fn_extracted, sig_compact, signature, as_method, as_function,
    \* render_package: its four arguments and the returned document
    package, include_readme, max_readme_lines, extra_context, document,
    \* _walk_package: whether the package is a single file, the configuration,
    \* the outcome of inspect_file per file, the module names of the returned
    \* list, and whether the call returned or raised
    walk_is_file, walk_config, walk_outcomes, walk_modules, walk_status,
    \* LibcontextConfig.from_dict: the dictionary, and what the call returned
    \* or raised
    cfg_data, cfg_config, cfg_raised, cfg_called,
    \* main of the command line: the arguments, the position in the run, the
    \* blocks collected so far, the arguments of every render_package call,
    \* the output file and the exit status
    argv, cli_pc, cli_config, all_blocks, render_calls, out_before, out_file,
    stdout, exit_status,
    \* _first_paragraph: the docstring and the returned paragraph
    docstring, paragraph, paragraph_done,
    \* render_package called twice: the package as it was given, and the
    \* second document
    package_before, document_again

injectVars == <<content, package_name, existing, result, again, pc>>
fileVars == <<output, latest>>
collectVars == <<heap, initial, calls, modules>>
exportVars == <<tree, all_exports, extracted>>
renderVars == <<module, rendered>>
memberVars == <<member_name, member_is_method, member_public, member_checked>>
paramVars ==
    <<fn_args, fn_params, fn_extracted, sig_compact, signature, as_method, as_function>>
packageVars == <<package, include_readme, max_readme_lines, extra_context, document>>
walkVars == <<walk_is_file, walk_config, walk_outcomes, walk_modules, walk_status>>
configVars == <<cfg_data, cfg_config, cfg_raised, cfg_called>>
cliVars ==
    <<argv, cli_pc, cli_config, all_blocks, render_calls, out_before, out_file,
      stdout, exit_status>>
paragraphVars == <<docstring, paragraph, paragraph_done>>
repeatVars == <<package_before, document_again>>

----------------------------------------------------------------------------
(* Bounds *)

\* number of fragments an enumerated pre-existing text is built from
MaxFrags == 3

\* number of collect_package calls that share one configuration object
MaxCalls == 3

\* number of top-level statements of an inspected module
MaxStmts == 3

----------------------------------------------------------------------------
(* Text primitives (Python str operations on token sequences) *)

None == <<"<None>">>

\* None where a list of names, or a set of names, is expected
NoneList == <<None>>
NoneSet == {None}

BOPEN == "<!-- BEGIN LIBCONTEXT:"
EOPEN == "<!-- END LIBCONTEXT:"
CLOSE == "-->"
SP == " "
NL == "\n"

Whitespace == {SP, NL}

Min(S) == CHOOSE m \in S : \A n \in S : m <= n

\* s[a:b] with 0-based, end-exclusive indices
Slice(s, a, b) == SubSeq(s, a + 1, b)

\* the 0-based offsets at which sub occurs in s
Occurrences(s, sub) ==
    {i \in 0..(Len(s) - Len(sub)) : Slice(s, i, i + Len(sub)) = sub}

\* str.find: offset of the first occurrence, or -1
find(s, sub) ==
    IF Occurrences(s, sub) = {} THEN -1 ELSE Min(Occurrences(s, sub))

\* str.rstrip(): drop the trailing whitespace
RECURSIVE rstrip(_)
rstrip(s) ==
    IF s = <<>> THEN <<>>
    ELSE IF s[Len(s)] \in Whitespace THEN rstrip(Slice(s, 0, Len(s) - 1))
    ELSE s

\* truth value of str.strip(): some character is not whitespace
strip_nonempty(s) == \E i \in 1..Len(s) : s[i] \notin Whitespace

\* BEGIN_MARKER.format(name=...) and END_MARKER.format(name=...)
BEGIN_MARKER(name) == <<BOPEN, SP, name, SP, CLOSE>>
END_MARKER(name) == <<EOPEN, SP, name, SP, CLOSE>>

----------------------------------------------------------------------------
(* inject_into_file *)

\* f"{begin}\n{content}\n{end}", with a newline missing before the end marker
Block_nonl(c, name) ==
    BEGIN_MARKER(name) \o <<NL>> \o c \o END_MARKER(name)

\* block = f"{begin}\n{content}\n{end}"
Block(c, name) ==
    BEGIN_MARKER(name) \o <<NL>> \o c \o <<NL>> \o END_MARKER(name)

\* the well-formed branch with the old end marker left in place
ReplaceSection_keepend(ex, block, begin_idx, end_idx, end) ==
    Slice(ex, 0, begin_idx) \o block \o Slice(ex, end_idx, Len(ex))

\* the well-formed branch with the text after the end marker lost
ReplaceSection_noafter(ex, block, begin_idx, end_idx, end) ==
    Slice(ex, 0, begin_idx) \o block

\* the well-formed branch: f"{before}{block}{after}"
ReplaceSection(ex, block, begin_idx, end_idx, end) ==
    Slice(ex, 0, begin_idx) \o block \o Slice(ex, end_idx + Len(end), Len(ex))

\* the malformed branch: cut the first begin marker, then the first end marker
RemoveStale(ex, begin, end, begin_idx) ==
    LET cleaned1 == IF begin_idx # -1
                    THEN Slice(ex, 0, begin_idx)
                         \o Slice(ex, begin_idx + Len(begin), Len(ex))
                    ELSE ex
        end_idx_clean == find(cleaned1, end)
    IN  IF end_idx_clean # -1
        THEN Slice(cleaned1, 0, end_idx_clean)
             \o Slice(cleaned1, end_idx_clean + Len(end), Len(cleaned1))
        ELSE cleaned1

\* the append with the separator always inserted
AppendBlock_always(ex, block) ==
    rstrip(ex) \o <<NL, NL>> \o block \o <<NL>>

\* separator = "\n\n" if existing.strip() else ""; existing.rstrip()+separator+block+"\n"
AppendBlock(ex, block) ==
    LET separator == IF strip_nonempty(ex) THEN <<NL, NL>> ELSE <<>>
    IN  rstrip(ex) \o separator \o block \o <<NL>>

inject_into_file(c, name, ex) ==
    LET begin == BEGIN_MARKER(name)
        end == END_MARKER(name)
        block == Block(c, name)
    IN  IF ex = None THEN block
        ELSE
          LET begin_idx == find(ex, begin)
              end_idx == find(ex, end)
          IN  IF begin_idx # -1 /\ end_idx # -1 /\ begin_idx < end_idx
              THEN ReplaceSection(ex, block, begin_idx, end_idx, end)
              ELSE IF begin_idx # -1 \/ end_idx # -1
              THEN AppendBlock(RemoveStale(ex, begin, end, begin_idx), block)
              ELSE AppendBlock(ex, block)

----------------------------------------------------------------------------
(* Inputs *)

Packages == {"p", "q"}

\* pieces a pre-existing document is made of: whole markers of package p,
\* prose and whitespace
Fragments ==
    { BEGIN_MARKER("p"), END_MARKER("p"), <<"x">>, <<NL>>, <<SP>> }

\* the same pieces and the two halves of a marker cut after the name
CutFragments == Fragments \cup { <<BOPEN, SP, "p">>, <<SP, CLOSE>> }

RECURSIVE TextsOf(_, _)
TextsOf(frags, n) ==
    IF n = 0 THEN {<<>>}
    ELSE LET shorter == TextsOf(frags, n - 1)
         IN  shorter \cup {t \o f : t \in shorter, f \in frags}

Texts == TextsOf(Fragments, MaxFrags)
CutTexts == TextsOf(CutFragments, MaxFrags)

HasMarker(s) ==
    \E n \in Packages :
        find(s, BEGIN_MARKER(n)) # -1 \/ find(s, END_MARKER(n)) # -1

\* rendered documents: prose, with or without marker text inside
Contents ==
    { <<>>, <<"x">>, <<"x", NL, "x">>, <<SP, CLOSE>>,
      END_MARKER("p"), BEGIN_MARKER("p") }

CleanContents == {c \in Contents : ~HasMarker(c)}

NoContent == <<"<NoContent>">>

----------------------------------------------------------------------------
(* collect_package and _walk_package *)

\* A path component and a dotted name are token sequences; a leading "_" or
\* "." and a trailing ".py" are tokens of their own, "." joins components.
startswith(s, prefix) ==
    Len(s) >= Len(prefix) /\ SubSeq(s, 1, Len(prefix)) = prefix

P_INIT == <<"_", "_init__", ".py">>
P_PYCACHE == <<"_", "_pycache__">>

RECURSIVE should_skip_path(_, _)
should_skip_path(parts, include_private) ==
    IF parts = <<>> THEN FALSE
    ELSE LET part == Head(parts)
         IN  IF part = P_PYCACHE \/ startswith(part, <<".">>) THEN TRUE
             ELSE IF part = P_INIT
                  THEN should_skip_path(Tail(parts), include_private)
             ELSE IF ~include_private /\ startswith(part, <<"_">>) THEN TRUE
             ELSE should_skip_path(Tail(parts), include_private)

\* ".".join(parts)
RECURSIVE dot_join(_)
dot_join(parts) ==
    IF parts = <<>> THEN <<>>
    ELSE IF Len(parts) = 1 THEN Head(parts)
    ELSE Head(parts) \o <<".">> \o dot_join(Tail(parts))

removesuffix_py(part) ==
    IF part # <<>> /\ part[Len(part)] = ".py"
    THEN SubSeq(part, 1, Len(part) - 1) ELSE part

module_name_from_path(parts, pkg_name) ==
    IF parts[Len(parts)] = P_INIT
    THEN IF Len(parts) = 1 THEN pkg_name
         ELSE pkg_name \o <<".">> \o dot_join(SubSeq(parts, 1, Len(parts) - 1))
    ELSE pkg_name \o <<".">>
         \o dot_join([i \in 1..Len(parts) |->
                        IF i = Len(parts) THEN removesuffix_py(parts[i])
                        ELSE parts[i]])

SeqRange(q) == {q[i] : i \in 1..Len(q)}

\* the include / exclude test with prefixes matched anywhere, not at a dot
kept_by_filters_noboundary(module_name, pkg_name, config) ==
    LET include_set == SeqRange(config.include_modules)
        exclude_set == SeqRange(config.exclude_modules)
        matches(pre) == startswith(module_name, pre)
    IN  /\ ~(/\ include_set # {}
             /\ ~\E inc \in include_set : matches(inc)
             /\ module_name # pkg_name)
        /\ ~\E exc \in exclude_set : matches(exc)

\* the include / exclude test of one module name
kept_by_filters(module_name, pkg_name, config) ==
    LET include_set == SeqRange(config.include_modules)
        exclude_set == SeqRange(config.exclude_modules)
        matches(pre) == module_name = pre \/ startswith(module_name, pre \o <<".">>)
    IN  /\ ~(/\ include_set # {}
             /\ ~\E inc \in include_set : matches(inc)
             /\ module_name # pkg_name)
        /\ ~\E exc \in exclude_set : matches(exc)

\* the loop over sorted(package_path.rglob("*.py")); every file parses
RECURSIVE walk_package(_, _, _)
walk_package(files, pkg_name, config) ==
    IF files = <<>> THEN <<>>
    ELSE LET parts == Head(files)
             rest == walk_package(Tail(files), pkg_name, config)
             module_name == module_name_from_path(parts, pkg_name)
         IN  IF should_skip_path(parts, config.include_private) THEN rest
             ELSE IF ~kept_by_filters(module_name, pkg_name, config) THEN rest
             ELSE <<module_name>> \o rest

\* addresses of the caller's LibcontextConfig and of the copy made by a call
OVERRIDE == 1
COPY == 2

\* config = config_override: the same object instead of a copy
copy_alias(h, ref) == [h |-> h, ref |-> ref]

\* copy.copy(config_override): a new object with the same field values
copy_copy(h, ref) == [h |-> [h EXCEPT ![COPY] = h[ref]], ref |-> COPY]

\* the source tree of the package, in sorted path order
PkgName == <<"pkg">>
PkgFiles ==
    << <<P_INIT>>,
       << <<"_", "internal", ".py">> >>,
       << <<"core", ".py">> >>,
       << <<"sub">>, P_INIT >>,
       << <<"sub">>, <<"_", "impl", ".py">> >>,
       << <<"sub">>, <<"api", ".py">> >> >>

\* LibcontextConfig()
DefaultConfig ==
    [ include_modules |-> <<>>, exclude_modules |-> <<>>,
      include_private |-> FALSE, extra_context |-> None,
      max_readme_lines |-> 100 ]

Configs ==
    [ include_modules : {<<>>, << <<"pkg", ".", "sub">> >>},
      exclude_modules : {<<>>, << <<"pkg", ".", "core">> >>},
      include_private : BOOLEAN,
      extra_context : {None, <<"x">>},
      max_readme_lines : {100, 5} ]

\* the outcomes of inspect_file: a ModuleInfo, or one of the exceptions of
\* its Raises section
Outcomes == {"ok", "SyntaxError", "UnicodeDecodeError", "OSError"}

\* the exceptions the try statements of _walk_package handle
Handled == {"SyntaxError", "UnicodeDecodeError", "OSError"}

\* the most files of one walk on which inspect_file fails
MaxFailing == 2

\* the loop with the try statement around it: the first failure ends the walk
RECURSIVE walk_loop_stop(_, _, _, _, _)
walk_loop_stop(i, files, pkg_name, config, outcomes) ==
    IF i > Len(files) THEN [modules |-> <<>>, raised |-> "none"]
    ELSE LET parts == files[i]
             rest == walk_loop_stop(i + 1, files, pkg_name, config, outcomes)
             module_name == module_name_from_path(parts, pkg_name)
         IN  IF should_skip_path(parts, config.include_private) THEN rest
             ELSE IF ~kept_by_filters(module_name, pkg_name, config) THEN rest
             ELSE IF outcomes[i] = "ok"
                  THEN [rest EXCEPT !.modules = <<module_name>> \o @]
             ELSE IF outcomes[i] \in Handled
                  THEN [modules |-> <<>>, raised |-> "none"]
             ELSE [modules |-> <<>>, raised |-> outcomes[i]]

\* the loop over sorted(package_path.rglob("*.py")) from the i-th file on: the
\* modules appended, and the exception that left the loop
RECURSIVE walk_loop(_, _, _, _, _)
walk_loop(i, files, pkg_name, config, outcomes) ==
    IF i > Len(files) THEN [modules |-> <<>>, raised |-> "none"]
    ELSE LET parts == files[i]
             rest == walk_loop(i + 1, files, pkg_name, config, outcomes)
             module_name == module_name_from_path(parts, pkg_name)
         IN  IF should_skip_path(parts, config.include_private) THEN rest
             ELSE IF ~kept_by_filters(module_name, pkg_name, config) THEN rest
             ELSE IF outcomes[i] = "ok"
                  THEN [rest EXCEPT !.modules = <<module_name>> \o @]
             ELSE IF outcomes[i] \in Handled THEN rest
             ELSE [modules |-> <<>>, raised |-> outcomes[i]]

\* _walk_package; of a single-file module only outcomes[1] is used
_walk_package(is_file, files, pkg_name, config, outcomes) ==
    IF is_file
    THEN IF outcomes[1] = "ok" THEN [modules |-> <<pkg_name>>, raised |-> "none"]
         ELSE IF outcomes[1] \in Handled THEN [modules |-> <<>>, raised |-> "none"]
         ELSE [modules |-> <<>>, raised |-> outcomes[1]]
    ELSE walk_loop(1, files, pkg_name, config, outcomes)

\* a source tree with a module whose name continues the name of another
WalkFiles ==
    << <<P_INIT>>,
       << <<"core", ".py">> >>,
       << <<"core", "_", "utils", ".py">> >>,
       << <<"sub">>, P_INIT >>,
       << <<"sub">>, <<"api", ".py">> >> >>

M_PKG == <<"pkg">>
M_CORE == <<"pkg", ".", "core">>
M_UTILS == <<"pkg", ".", "core", "_", "utils">>
M_SUB == <<"pkg", ".", "sub">>
M_API == <<"pkg", ".", "sub", ".", "api">>

WalkConfigs ==
    [ include_modules : {<<>>, <<M_CORE>>, <<M_SUB>>, <<M_CORE, M_API>>},
      exclude_modules : {<<>>, <<M_CORE>>, <<M_SUB>>, <<M_PKG>>, <<M_API>>},
      include_private : {FALSE},
      extra_context : {None},
      max_readme_lines : {100} ]

WalkOutcomes ==
    { o \in [1..Len(WalkFiles) -> Outcomes] :
        Cardinality({i \in 1..Len(WalkFiles) : o[i] # "ok"}) <= MaxFailing }

----------------------------------------------------------------------------
(* config.LibcontextConfig.from_dict *)

\* A value of a parsed TOML section: its Python type, and the items of a
\* list, the text of a string, the number of an int or float, the truth of a
\* bool.  MISSING stands for a key the dictionary does not hold.
PyValue(type, items, text, number, flag) ==
    [type |-> type, items |-> items, text |-> text, number |-> number, flag |-> flag]
PyList(items) == PyValue("list", items, <<>>, 0, FALSE)
PyStr(text) == PyValue("str", <<>>, text, 0, FALSE)
PyInt(number) == PyValue("int", <<>>, <<>>, number, FALSE)
PyFloat(number) == PyValue("float", <<>>, <<>>, number, FALSE)
PyBool(flag) == PyValue("bool", <<>>, <<>>, IF flag THEN 1 ELSE 0, flag)
PyNone == PyValue("NoneType", <<>>, <<>>, 0, FALSE)
MISSING == PyValue("<missing>", <<>>, <<>>, 0, FALSE)

\* isinstance(value, cls): bool is a subclass of int
isinstance(value, cls) ==
    value.type = cls \/ (cls = "int" /\ value.type = "bool")

\* data.get(key, default)
dict_get(data, key, default) ==
    IF data[key] = MISSING THEN default ELSE data[key]

\* cls(...): the dataclass instance holding the five values
LibcontextConfig(include_modules, exclude_modules, include_private, extra, max_lines) ==
    [ include_modules |-> include_modules.items,
      exclude_modules |-> exclude_modules.items,
      include_private |-> include_private.flag,
      extra_context |-> IF extra.type = "NoneType" THEN None ELSE extra.text,
      max_readme_lines |-> max_lines.number ]

\* the validation with a bool accepted as an integer
from_dict_boolint(data) ==
    LET include_modules == dict_get(data, "include_modules", PyList(<<>>))
        exclude_modules == dict_get(data, "exclude_modules", PyList(<<>>))
        include_private == dict_get(data, "include_private", PyBool(FALSE))
        extra == dict_get(data, "extra_context", PyNone)
        max_lines == dict_get(data, "max_readme_lines", PyInt(100))
        returned == LibcontextConfig(include_modules, exclude_modules,
                                     include_private, extra, max_lines)
    IN  IF \/ ~isinstance(include_modules, "list")
           \/ ~isinstance(exclude_modules, "list")
           \/ ~isinstance(include_private, "bool")
           \/ (extra # PyNone /\ ~isinstance(extra, "str"))
           \/ ~isinstance(max_lines, "int")
        THEN [raised |-> "TypeError", config |-> DefaultConfig]
        ELSE [raised |-> "none", config |-> returned]

\* LibcontextConfig.from_dict(data): the exception raised, and the returned
\* configuration when none is
from_dict(data) ==
    LET include_modules == dict_get(data, "include_modules", PyList(<<>>))
        exclude_modules == dict_get(data, "exclude_modules", PyList(<<>>))
        include_private == dict_get(data, "include_private", PyBool(FALSE))
        extra == dict_get(data, "extra_context", PyNone)
        max_lines == dict_get(data, "max_readme_lines", PyInt(100))
        returned == LibcontextConfig(include_modules, exclude_modules,
                                     include_private, extra, max_lines)
    IN  IF ~isinstance(include_modules, "list")
        THEN [raised |-> "TypeError", config |-> DefaultConfig]
        ELSE IF ~isinstance(exclude_modules, "list")
        THEN [raised |-> "TypeError", config |-> DefaultConfig]
        ELSE IF ~isinstance(include_private, "bool")
        THEN [raised |-> "TypeError", config |-> DefaultConfig]
        ELSE IF extra # PyNone /\ ~isinstance(extra, "str")
        THEN [raised |-> "TypeError", config |-> DefaultConfig]
        ELSE IF ~isinstance(max_lines, "int") \/ isinstance(max_lines, "bool")
        THEN [raised |-> "TypeError", config |-> DefaultConfig]
        ELSE [raised |-> "none", config |-> returned]

\* parsed [tool.libcontext] sections: every key missing, well-shaped or
\* ill-shaped
ModuleListValues ==
    {MISSING, PyList(<<>>), PyList(<<M_CORE>>), PyStr(M_CORE), PyNone}

Dicts ==
    [ include_modules : ModuleListValues,
      exclude_modules : ModuleListValues,
      include_private :
          {MISSING, PyBool(TRUE), PyBool(FALSE), PyInt(1), PyStr(<<"true">>), PyNone},
      extra_context :
          {MISSING, PyNone, PyStr(<<"note">>), PyStr(<<>>), PyInt(0), PyList(<<>>),
           PyBool(FALSE)},
      max_readme_lines :
          {MISSING, PyInt(5), PyInt(0), PyInt(-1), PyBool(TRUE), PyBool(FALSE),
           PyStr(<<"5">>), PyFloat(5), PyNone} ]

----------------------------------------------------------------------------
(* _extract_all_exports *)

\* syntax-tree nodes: expressions, assignment targets and statements
StrConst(v) == [node |-> "Constant", type |-> "str", value |-> v]
IntConst(v) == [node |-> "Constant", type |-> "int", value |-> v]
NameExpr(v) == [node |-> "Name", type |-> "name", value |-> v]
ListExpr(elts) == [node |-> "List", elts |-> elts]
TupleExpr(elts) == [node |-> "Tuple", elts |-> elts]
CallExpr == [node |-> "Call", elts |-> <<>>]
NameTarget(id) == [node |-> "Name", id |-> id]
AttrTarget(id) == [node |-> "Attribute", id |-> id]
Assign(targets, value) == [node |-> "Assign", targets |-> targets, value |-> value]
AugAssign(target, value) == [node |-> "AugAssign", targets |-> <<target>>, value |-> value]

\* [elt.value for elt in node.elts if isinstance(elt, ast.Constant)
\*  and isinstance(elt.value, str)]
RECURSIVE extract_list_strings_elts(_)
extract_list_strings_elts(elts) ==
    IF elts = <<>> THEN <<>>
    ELSE IF Head(elts).node = "Constant" /\ Head(elts).type = "str"
    THEN <<Head(elts).value>> \o extract_list_strings_elts(Tail(elts))
    ELSE extract_list_strings_elts(Tail(elts))

extract_list_strings(node) == extract_list_strings_elts(node.elts)

is_all_target(target) == target.node = "Name" /\ target.id = "__all__"
is_list_or_tuple(value) == value.node \in {"List", "Tuple"}

\* the inner loop `for target in node.targets` of an Assign
RECURSIVE assign_targets(_, _, _)
assign_targets(exports, targets, value) ==
    IF targets = <<>> THEN exports
    ELSE assign_targets(
           IF is_all_target(Head(targets)) /\ is_list_or_tuple(value)
           THEN extract_list_strings(value) ELSE exports,
           Tail(targets), value)

\* the loop body with an assignment that extends instead of replacing
export_step_extend(exports, node) ==
    IF node.node \in {"Assign", "AugAssign"}
       /\ \E i \in 1..Len(node.targets) : is_all_target(node.targets[i])
       /\ is_list_or_tuple(node.value)
    THEN IF exports = NoneList THEN extract_list_strings(node.value)
         ELSE exports \o extract_list_strings(node.value)
    ELSE exports

\* one iteration of `for node in ast.iter_child_nodes(tree)`
export_step(exports, node) ==
    IF node.node = "Assign"
    THEN assign_targets(exports, node.targets, node.value)
    ELSE IF /\ node.node = "AugAssign"
            /\ is_all_target(node.targets[1])
            /\ is_list_or_tuple(node.value)
    THEN LET extra == extract_list_strings(node.value)
         IN  IF exports = NoneList THEN extra ELSE exports \o extra
    ELSE exports

RECURSIVE export_loop(_, _)
export_loop(exports, nodes) ==
    IF nodes = <<>> THEN exports
    ELSE export_loop(export_step(exports, Head(nodes)), Tail(nodes))

\* the result with an empty list reported as None
extract_all_exports_falsy(t) ==
    IF export_loop(NoneList, t) = <<>> THEN NoneList ELSE export_loop(NoneList, t)

\* exports = None; for node in ...: ...; return exports
extract_all_exports(t) == export_loop(NoneList, t)

\* top-level statements of an inspected module
Statements ==
    { Assign(<<NameTarget("__all__")>>, ListExpr(<<StrConst(<<"a">>)>>)),
      Assign(<<NameTarget("__all__")>>, TupleExpr(<<StrConst(<<"b">>), IntConst(<<"1">>)>>)),
      Assign(<<NameTarget("__all__")>>, ListExpr(<<>>)),
      Assign(<<NameTarget("__all__")>>, ListExpr(<<IntConst(<<"2">>)>>)),
      Assign(<<NameTarget("__all__")>>, CallExpr),
      Assign(<<NameTarget("x"), NameTarget("__all__")>>, ListExpr(<<StrConst(<<"c">>)>>)),
      Assign(<<NameTarget("x")>>, ListExpr(<<StrConst(<<"d">>)>>)),
      AugAssign(NameTarget("__all__"), ListExpr(<<StrConst(<<"e">>), NameExpr(<<"n">>)>>)),
      AugAssign(NameTarget("__all__"), TupleExpr(<<StrConst(<<"f">>)>>)),
      AugAssign(AttrTarget("__all__"), ListExpr(<<StrConst(<<"g">>)>>)),
      AugAssign(NameTarget("__all__"), CallExpr) }

RECURSIVE SeqsUpTo(_, _)
SeqsUpTo(S, n) ==
    IF n = 0 THEN {<<>>}
    ELSE LET shorter == SeqsUpTo(S, n - 1)
         IN  shorter \cup {Append(q, x) : q \in shorter, x \in S}

Trees == SeqsUpTo(Statements, MaxStmts)

----------------------------------------------------------------------------
(* inspector.is_public_member and the renderer *)

\* A name is a sequence of tokens: every underscore is a token "_", a run of
\* letters of one case is a token.  Other rendered text is a sequence of
\* words and punctuation; a variable's value is one token per character.
\* the backquote character
TICK == "<backquote>"

endswith(s, suffix) ==
    Len(s) >= Len(suffix)
    /\ SubSeq(s, Len(s) - Len(suffix) + 1, Len(s)) = suffix

Dunder(word) == <<"_", "_", word, "_", "_">>

USEFUL_DUNDERS ==
    { Dunder(w) : w \in
        { "init", "call", "enter", "exit", "aenter", "aexit", "getitem",
          "setitem", "delitem", "len", "iter", "next", "aiter", "anext",
          "contains", "eq", "ne", "lt", "le", "gt", "ge", "hash", "repr",
          "str", "bool", "add", "sub", "mul", "truediv", "floordiv", "mod",
          "pow", "and", "or", "xor", "invert", "neg", "pos", "abs", "int",
          "float", "complex", "index", "await", "get", "set", "delete",
          "missing", "format", "sizeof", "reduce", "copy", "deepcopy",
          "fspath" } }
    \cup { <<"_", "_", "init", "_", "subclass", "_", "_">>,
           <<"_", "_", "class", "_", "getitem", "_", "_">> }

\* the test with the allow-list open to every caller
is_public_member_anycaller(name, is_method) ==
    IF startswith(name, <<"_", "_">>) /\ endswith(name, <<"_", "_">>)
    THEN name \in USEFUL_DUNDERS
    ELSE ~startswith(name, <<"_">>)

is_public_member(name, is_method) ==
    IF startswith(name, <<"_", "_">>) /\ endswith(name, <<"_", "_">>)
    THEN is_method /\ name \in USEFUL_DUNDERS
    ELSE ~startswith(name, <<"_">>)

\* truth value of an optional string: neither None nor empty
Truthy(text) == text # None /\ text # <<>>

\* sep.join(parts)
RECURSIVE join(_, _)
join(sep, parts) ==
    IF parts = <<>> THEN <<>>
    ELSE IF Len(parts) = 1 THEN Head(parts)
    ELSE Head(parts) \o sep \o join(sep, Tail(parts))

RECURSIVE lstrip(_)
lstrip(s) ==
    IF s = <<>> THEN <<>>
    ELSE IF Head(s) \in Whitespace THEN lstrip(Tail(s))
    ELSE s

strip(s) == lstrip(rstrip(s))

\* str.splitlines()
RECURSIVE splitlines(_)
splitlines(s) ==
    IF s = <<>> THEN <<>>
    ELSE LET breaks == {i \in 1..Len(s) : s[i] = NL}
         IN  IF breaks = {} THEN <<s>>
             ELSE <<SubSeq(s, 1, Min(breaks) - 1)>>
                  \o splitlines(SubSeq(s, Min(breaks) + 1, Len(s)))

_format_param(param) ==
    param.name
    \o (IF Truthy(param.annotation) THEN <<":", SP>> \o param.annotation ELSE <<>>)
    \o (IF param.default # None THEN <<SP, "=", SP>> \o param.default ELSE <<>>)

\* the loop with a `*` put before every keyword-only parameter
RECURSIVE signature_parts_stars(_, _)
signature_parts_stars(params, prev_kind) ==
    IF params = <<>> THEN <<>>
    ELSE LET param == Head(params)
         IN  (IF prev_kind = "POSITIONAL_ONLY" /\ param.kind # "POSITIONAL_ONLY"
              THEN << <<"/">> >> ELSE <<>>)
             \o (IF param.kind = "KEYWORD_ONLY" THEN << <<"*">> >> ELSE <<>>)
             \o << _format_param(param) >>
             \o signature_parts_stars(Tail(params), param.kind)

\* the loop over params of _format_signature: the formatted parts
RECURSIVE signature_parts(_, _)
signature_parts(params, prev_kind) ==
    IF params = <<>> THEN <<>>
    ELSE LET param == Head(params)
         IN  (IF prev_kind = "POSITIONAL_ONLY" /\ param.kind # "POSITIONAL_ONLY"
              THEN << <<"/">> >> ELSE <<>>)
             \o (IF param.kind = "KEYWORD_ONLY"
                    /\ prev_kind \notin {"VAR_POSITIONAL", "KEYWORD_ONLY"}
                 THEN << <<"*">> >> ELSE <<>>)
             \o << _format_param(param) >>
             \o signature_parts(Tail(params), param.kind)

_format_signature(func, compact) ==
    LET shown(p) == p.name \notin {<<"self">>, <<"cls">>}
        params == IF compact THEN SelectSeq(func.parameters, shown)
                  ELSE func.parameters
        formatted_parts ==
            signature_parts(params, "None")
            \o (IF params # <<>>
                   /\ \A i \in 1..Len(params) : params[i].kind = "POSITIONAL_ONLY"
                THEN << <<"/">> >> ELSE <<>>)
        params_str == join(<<",", SP>>, formatted_parts)
        prefix == IF func.is_async THEN <<"async", SP, "def">> ELSE <<"def">>
        ret == IF Truthy(func.return_annotation)
               THEN <<SP, "->", SP>> \o func.return_annotation ELSE <<>>
    IN  prefix \o <<SP>> \o func.name \o <<"(">> \o params_str \o <<")">> \o ret

\* the loop without the break: every non-blank line is taken
RECURSIVE first_paragraph_lines_all(_, _)
first_paragraph_lines_all(todo, lines) ==
    IF todo = <<>> THEN lines
    ELSE LET stripped == strip(Head(todo))
         IN  IF stripped # <<>>
             THEN first_paragraph_lines_all(Tail(todo), Append(lines, stripped))
             ELSE first_paragraph_lines_all(Tail(todo), lines)

\* the loop of _first_paragraph: stop at the first blank line after a line
RECURSIVE first_paragraph_lines(_, _)
first_paragraph_lines(todo, lines) ==
    IF todo = <<>> THEN lines
    ELSE LET stripped == strip(Head(todo))
         IN  IF stripped = <<>> /\ lines # <<>> THEN lines
             ELSE IF stripped # <<>>
             THEN first_paragraph_lines(Tail(todo), Append(lines, stripped))
             ELSE first_paragraph_lines(Tail(todo), lines)

_first_paragraph(text) ==
    IF ~Truthy(text) THEN None
    ELSE LET lines == first_paragraph_lines(splitlines(strip(text)), <<>>)
         IN  IF lines # <<>> THEN join(<<SP>>, lines) ELSE None

\* longest value rendered in full, and the length kept of a longer one
MaxValueLen == 80
KeptValueLen == 77

_render_variable(var) ==
    LET val == IF Len(var.value) <= MaxValueLen THEN var.value
               ELSE SubSeq(var.value, 1, KeptValueLen) \o <<".", ".", ".">>
    IN  <<"-", SP, TICK>> \o var.name
        \o (IF Truthy(var.annotation) THEN <<":", SP>> \o var.annotation ELSE <<>>)
        \o (IF var.value # None THEN <<SP, "=", SP>> \o val ELSE <<>>)
        \o <<TICK>>

_render_function(func) ==
    LET heading == "-"
        notable(d) == d \notin {<<"property">>, <<"classmethod">>, <<"staticmethod">>}
        notable_decorators == SelectSeq(func.decorators, notable)
        dec_lines == [i \in 1..Len(notable_decorators) |->
                        <<heading, SP, TICK, "@">> \o notable_decorators[i] \o <<TICK>>]
        sig == _format_signature(func, TRUE)
        doc == _first_paragraph(func.docstring)
        indent == IF heading = "-" THEN <<SP, SP>> ELSE <<>>
        lines == dec_lines
                 \o << <<heading, SP, TICK>> \o sig \o <<TICK>> >>
                 \o (IF Truthy(doc) THEN << indent \o doc >> ELSE <<>>)
    IN  join(<<NL>>, lines)

\* str.isupper() of a name: some cased character, and none in lower case
UpperWords == {"LIMIT", "MAX"}
LowerWords == {"debug", "version", "size", "cache", "slots", "x"}

\* words with characters of both cases
MixedWords == {"Max"}

\* words of letters that have no case, such as ideographs
UncasedWords == {"<ideograph>"}

\* the test passed by every name with a character in upper case
isupper_some(name) ==
    \E i \in 1..Len(name) : name[i] \in UpperWords \cup MixedWords

isupper(name) ==
    /\ \E i \in 1..Len(name) : name[i] \in UpperWords \cup MixedWords
    /\ ~\E i \in 1..Len(name) : name[i] \in LowerWords \cup MixedWords

RECURSIVE _render_class(_)
_render_class(cls) ==
    LET bases_str == IF cls.bases # <<>>
                     THEN <<"(">> \o join(<<",", SP>>, cls.bases) \o <<")">>
                     ELSE <<>>
        dec_str == join(<<>>, [i \in 1..Len(cls.decorators) |->
                                <<TICK, "@">> \o cls.decorators[i] \o <<TICK, SP>>])
        doc == _first_paragraph(cls.docstring)
        pub_var(v) == is_public_member(v.name, FALSE)
        public_vars == SelectSeq(cls.class_variables, pub_var)
        vis(m) == is_public_member(m.name, TRUE)
        visible_methods == SelectSeq(cls.methods, vis)
        pub_inner(c) == is_public_member(c.name, FALSE)
        public_inner == SelectSeq(cls.inner_classes, pub_inner)
        RECURSIVE inner_lines(_)
        inner_lines(cs) ==
            IF cs = <<>> THEN <<>>
            ELSE << <<>>, _render_class(Head(cs)) >> \o inner_lines(Tail(cs))
        lines ==
            << <<"####", SP>> \o dec_str \o <<TICK, "class", SP>> \o cls.name
               \o bases_str \o <<TICK>> >>
            \o (IF Truthy(doc) THEN << <<>>, doc >> ELSE <<>>)
            \o (IF public_vars # <<>>
                THEN << <<>>, <<"**Attributes:**">> >>
                     \o [i \in 1..Len(public_vars) |-> _render_variable(public_vars[i])]
                ELSE <<>>)
            \o (IF visible_methods # <<>>
                THEN << <<>>, <<"**Methods:**">> >>
                     \o [i \in 1..Len(visible_methods) |->
                           _render_function(visible_methods[i])]
                ELSE <<>>)
            \o inner_lines(public_inner)
    IN  join(<<NL>>, lines)

\* _is_public of _render_module with the export list ignored
module_is_public_underscore(exports, name) == is_public_member(name, FALSE)

\* _is_public of _render_module; exports is None or the set of exported names
module_is_public(exports, name) ==
    IF exports # NoneSet THEN name \in exports
    ELSE is_public_member(name, FALSE)

_render_module(mod) ==
    LET doc == _first_paragraph(mod.docstring)
        exports == IF mod.all_exports # NoneList THEN SeqRange(mod.all_exports)
                   ELSE NoneSet
        pub(d) == module_is_public(exports, d.name)
        public_classes == SelectSeq(mod.classes, pub)
        public_functions == SelectSeq(mod.functions, pub)
        const(v) == module_is_public(exports, v.name) /\ isupper(v.name)
        public_constants == SelectSeq(mod.variables, const)
        nonconst(v) == module_is_public(exports, v.name) /\ ~isupper(v.name)
        public_vars == SelectSeq(mod.variables, nonconst)
        RECURSIVE spaced(_)
        spaced(blocks) ==
            IF blocks = <<>> THEN <<>>
            ELSE << <<>>, Head(blocks) >> \o spaced(Tail(blocks))
        lines ==
            << <<"###", SP, TICK>> \o mod.name \o <<TICK>> >>
            \o (IF Truthy(doc) THEN << <<>>, doc >> ELSE <<>>)
            \o spaced([i \in 1..Len(public_classes) |-> _render_class(public_classes[i])])
            \o (IF public_functions # <<>>
                THEN << <<>>, <<"**Functions:**">> >>
                     \o spaced([i \in 1..Len(public_functions) |->
                                  _render_function(public_functions[i])])
                ELSE <<>>)
            \o (IF public_constants # <<>>
                THEN << <<>>, <<"**Constants:**">> >>
                     \o [i \in 1..Len(public_constants) |->
                           _render_variable(public_constants[i])]
                ELSE <<>>)
            \o (IF public_vars # <<>>
                THEN << <<>>, <<"**Module Variables:**">> >>
                     \o [i \in 1..Len(public_vars) |-> _render_variable(public_vars[i])]
                ELSE <<>>)
    IN  join(<<NL>>, lines)

\* the declarations of the rendered module
ParameterInfo(name, kind) ==
    [name |-> name, annotation |-> None, default |-> None, kind |-> kind]
FunctionInfo(name, parameters) ==
    [ name |-> name, parameters |-> parameters, return_annotation |-> None,
      docstring |-> None, decorators |-> <<>>, is_async |-> FALSE ]
VariableInfo(name, value) == [name |-> name, annotation |-> None, value |-> value]
ClassInfo(name, methods, class_variables, inner_classes) ==
    [ name |-> name, bases |-> <<>>, docstring |-> None, methods |-> methods,
      class_variables |-> class_variables, decorators |-> <<>>,
      inner_classes |-> inner_classes ]

SelfParam == ParameterInfo(<<"self">>, "POSITIONAL_OR_KEYWORD")

ClassBody(name) ==
    ClassInfo(name,
        << FunctionInfo(Dunder("init"), <<SelfParam>>),
           FunctionInfo(Dunder("del"), <<SelfParam>>),
           FunctionInfo(<<"run">>, <<SelfParam>>),
           FunctionInfo(<<"_", "step">>, <<SelfParam>>) >>,
        << VariableInfo(<<"size">>, <<"0">>),
           VariableInfo(<<"_", "cache">>, None),
           VariableInfo(Dunder("slots"), None) >>,
        << ClassInfo(<<"Meta">>, <<>>, <<>>, <<>>),
           ClassInfo(<<"_", "Inner">>, <<>>, <<>>, <<>>) >>)

TopClasses == << ClassBody(<<"Shown">>), ClassBody(<<"_", "Hidden">>) >>
TopFunctions ==
    << FunctionInfo(<<"helper">>, <<>>), FunctionInfo(<<"_", "helper">>, <<>>) >>
TopVariables ==
    << VariableInfo(<<"LIMIT">>, <<"1">>), VariableInfo(<<"_", "LIMIT">>, None),
       VariableInfo(<<"debug">>, None), VariableInfo(<<"_", "debug">>, None),
       VariableInfo(Dunder("version"), None) >>

\* names an export list is drawn from: top-level names, names of class
\* members and a name the module does not define
ExportNames ==
    { <<"Shown">>, <<"_", "Hidden">>, <<"helper">>, <<"_", "helper">>,
      <<"LIMIT">>, <<"_", "debug">>, Dunder("version"),
      <<"run">>, <<"_", "step">>, <<"_", "Inner">>, <<"ghost">> }

RECURSIVE SetToSeq(_)
SetToSeq(S) ==
    IF S = {} THEN <<>>
    ELSE LET x == CHOOSE y \in S : TRUE IN <<x>> \o SetToSeq(S \ {x})

ModuleInfo(exports) ==
    [ name |-> <<"pkg", ".", "core">>, docstring |-> None,
      classes |-> TopClasses, functions |-> TopFunctions,
      variables |-> TopVariables, all_exports |-> exports ]

Modules == {ModuleInfo(NoneList)} \cup {ModuleInfo(SetToSeq(S)) : S \in SUBSET ExportNames}

----------------------------------------------------------------------------
(* inspector._extract_parameters *)

\* the bound on the number of parameters in one group of a parameter list
MaxGroup == 2

\* Python's None where a syntax-tree node is expected
NoNode == [node |-> "<None>", type |-> "<None>", value |-> <<>>]
NoneConst == [node |-> "Constant", type |-> "NoneType", value |-> <<"None">>]

\* ast.arg, and None where an ast.arg is expected
Arg(name) == [arg |-> name, annotation |-> NoNode]
NoArg == [arg |-> None, annotation |-> NoNode]

\* ast.unparse of a constant: a string literal gets its quotes
ast_unparse(node) ==
    IF node.type = "str" THEN <<"'">> \o node.value \o <<"'">> ELSE node.value

\* _unparse; every node of the model can be unparsed
_unparse(node) == IF node = NoNode THEN None ELSE ast_unparse(node)

Parameter(name, annotation, default, kind) ==
    [name |-> name, annotation |-> annotation, default |-> default, kind |-> kind]

num_no_default(args) ==
    (Len(args.posonlyargs) + Len(args.args)) - Len(args.defaults)

\* _unparse(args.defaults[default_idx]) if default_idx >= 0 else None
positional_default(args, default_idx) ==
    IF default_idx >= 0 THEN _unparse(args.defaults[default_idx + 1]) ELSE None

\* for i, arg in enumerate(args.posonlyargs)
posonly_params(args) ==
    [k \in 1..Len(args.posonlyargs) |->
        Parameter(args.posonlyargs[k].arg, _unparse(args.posonlyargs[k].annotation),
                  positional_default(args, (k - 1) - num_no_default(args)),
                  "POSITIONAL_ONLY")]

\* the loop over args.args with the positional-only parameters not counted
regular_params_nooffset(args) ==
    [k \in 1..Len(args.args) |->
        Parameter(args.args[k].arg, _unparse(args.args[k].annotation),
                  positional_default(args, (k - 1) - num_no_default(args)),
                  "POSITIONAL_OR_KEYWORD")]

\* for i, arg in enumerate(args.args)
regular_params(args) ==
    [k \in 1..Len(args.args) |->
        Parameter(args.args[k].arg, _unparse(args.args[k].annotation),
                  positional_default(args,
                      (Len(args.posonlyargs) + (k - 1)) - num_no_default(args)),
                  "POSITIONAL_OR_KEYWORD")]

\* if args.vararg
vararg_params(args) ==
    IF args.vararg # NoArg
    THEN << Parameter(<<"*">> \o args.vararg.arg, _unparse(args.vararg.annotation),
                      None, "VAR_POSITIONAL") >>
    ELSE <<>>

\* for i, arg in enumerate(args.kwonlyargs)
kwonly_params(args) ==
    [k \in 1..Len(args.kwonlyargs) |->
        LET kw_default == IF k - 1 < Len(args.kw_defaults)
                          THEN args.kw_defaults[k] ELSE NoNode
        IN  Parameter(args.kwonlyargs[k].arg, _unparse(args.kwonlyargs[k].annotation),
                      IF kw_default # NoNode THEN _unparse(kw_default) ELSE None,
                      "KEYWORD_ONLY")]

\* if args.kwarg
kwarg_params(args) ==
    IF args.kwarg # NoArg
    THEN << Parameter(<<"**">> \o args.kwarg.arg, _unparse(args.kwarg.annotation),
                      None, "VAR_KEYWORD") >>
    ELSE <<>>

\* the extraction with the variadic-positional parameter appended last
_extract_parameters_varlast(args) ==
    posonly_params(args) \o regular_params(args) \o kwonly_params(args)
    \o kwarg_params(args) \o vararg_params(args)

_extract_parameters(args) ==
    posonly_params(args) \o regular_params(args) \o vararg_params(args)
    \o kwonly_params(args) \o kwarg_params(args)

\* the order-preserving selections of at most MaxGroup names of a pool
RECURSIVE Selections(_)
Selections(pool) ==
    IF pool = <<>> THEN {<<>>}
    ELSE LET rest == Selections(Tail(pool))
         IN  rest \cup {<<Head(pool)>> \o q : q \in {r \in rest : Len(r) < MaxGroup}}

PosOnlyPool == << <<"self">>, <<"a">>, <<"b">> >>
ArgPool == << <<"self">>, <<"cls">>, <<"c">> >>
KwOnlyPool == << <<"cls">>, <<"key">> >>

\* the default expressions of a definition, told apart by their text
DefaultExprs ==
    << IntConst(<<"1">>), StrConst(<<"x">>), NoneConst, IntConst(<<"2">>),
       IntConst(<<"3">>), IntConst(<<"4">>) >>
KwDefaultExprs == << IntConst(<<"7">>), NoneConst >>

Arguments(posonlyargs, regular, vararg, kwonlyargs, kw_defaults, kwarg, defaults) ==
    [ posonlyargs |-> posonlyargs, args |-> regular, vararg |-> vararg,
      kwonlyargs |-> kwonlyargs, kw_defaults |-> kw_defaults, kwarg |-> kwarg,
      defaults |-> defaults ]

\* the parameter lists of the function definitions Python accepts: no name
\* twice, no more positional defaults than positional parameters, one
\* kw_defaults entry (an expression or None) per keyword-only parameter
ArgumentChoices ==
    { c \in [ po : Selections(PosOnlyPool), re : Selections(ArgPool),
              va : {NoArg, Arg(<<"args">>)}, ko : Selections(KwOnlyPool),
              kd : SUBSET (1..Len(KwOnlyPool)), kw : {NoArg, Arg(<<"kwargs">>)},
              d : 0..Len(DefaultExprs) ] :
        /\ SeqRange(c.po) \cap SeqRange(c.re) = {}
        /\ SeqRange(c.re) \cap SeqRange(c.ko) = {}
        /\ c.kd \subseteq 1..Len(c.ko)
        /\ c.d <= Len(c.po) + Len(c.re) }

ArgumentLists ==
    { Arguments([k \in 1..Len(c.po) |-> Arg(c.po[k])],
                [k \in 1..Len(c.re) |-> Arg(c.re[k])],
                c.va,
                [k \in 1..Len(c.ko) |-> Arg(c.ko[k])],
                [k \in 1..Len(c.ko) |-> IF k \in c.kd THEN KwDefaultExprs[k] ELSE NoNode],
                c.kw,
                SubSeq(DefaultExprs, 1, c.d)) : c \in ArgumentChoices }

\* the FunctionInfo of `def f(...)`, and a class and a module that hold it
FunctionOf(params) == FunctionInfo(<<"f">>, params)
ClassWith(func) == ClassInfo(<<"K">>, <<func>>, <<>>, <<>>)
ModuleWith(func) ==
    [ name |-> <<"pkg", ".", "core">>, docstring |-> None, classes |-> <<>>,
      functions |-> <<func>>, variables |-> <<>>, all_exports |-> NoneList ]

----------------------------------------------------------------------------
(* renderer.render_package, ModuleInfo.is_empty, PackageInfo.non_empty_modules *)

\* the bounds on the content lines of a README and on the modules of a package
MaxReadme == 3
MaxModules == 2

\* the dash of the title line
EMDASH == "<emdash>"

H_OVERVIEW == <<"##", SP, "Overview">>
H_NOTES == <<"##", SP, "Notes">>
H_API == <<"##", SP, "API Reference">>
TRUNCATED == <<"*(README truncated)*">>
RULE == <<"---">>

\* is_empty with only the public declarations counted
is_empty_public(mod) ==
    ~(\/ \E i \in 1..Len(mod.classes) : is_public_member(mod.classes[i].name, FALSE)
      \/ \E i \in 1..Len(mod.functions) : is_public_member(mod.functions[i].name, FALSE)
      \/ \E i \in 1..Len(mod.variables) : is_public_member(mod.variables[i].name, FALSE)
      \/ Truthy(mod.docstring))

\* not (self.classes or self.functions or self.variables or self.docstring)
is_empty(mod) ==
    ~(\/ mod.classes # <<>> \/ mod.functions # <<>> \/ mod.variables # <<>>
      \/ Truthy(mod.docstring))

non_empty_modules(p) ==
    LET kept(m) == ~is_empty(m) IN SelectSeq(p.modules, kept)

\* items[:stop]: a negative stop counts from the end
slice_to(items, stop) ==
    IF stop >= 0 THEN SubSeq(items, 1, IF stop < Len(items) THEN stop ELSE Len(items))
    ELSE SubSeq(items, 1, Len(items) + stop)

\* the README overview of render_package
readme_section(p, readme_wanted, max_lines) ==
    IF readme_wanted /\ Truthy(p.readme)
    THEN LET all_lines == splitlines(strip(p.readme))
             readme_lines == IF Len(all_lines) > max_lines
                             THEN slice_to(all_lines, max_lines) \o << <<>>, TRUNCATED >>
                             ELSE all_lines
         IN  << H_OVERVIEW, <<>> >> \o readme_lines \o << <<>> >>
    ELSE <<>>

\* the extra context of render_package
notes_section(extra) ==
    IF Truthy(extra) THEN << H_NOTES, <<>>, strip(extra), <<>> >> ELSE <<>>

\* the API reference of render_package
RECURSIVE module_sections(_)
module_sections(mods) ==
    IF mods = <<>> THEN <<>>
    ELSE << _render_module(Head(mods)), <<>>, RULE, <<>> >> \o module_sections(Tail(mods))

api_section(p) ==
    LET mods == non_empty_modules(p)
    IN  IF mods # <<>> THEN << H_API, <<>> >> \o module_sections(mods) ELSE <<>>

render_package(p, readme_wanted, max_lines, extra) ==
    LET version == IF Truthy(p.version) THEN <<SP, "v">> \o p.version ELSE <<>>
        lines ==
            << <<"#", SP>> \o p.name \o version \o <<SP, EMDASH, SP, "API Reference">>, <<>> >>
            \o (IF Truthy(p.summary) THEN << <<">", SP>> \o p.summary, <<>> >> ELSE <<>>)
            \o readme_section(p, readme_wanted, max_lines)
            \o notes_section(extra)
            \o api_section(p)
    IN  join(<<NL>>, lines)

\* the package written back with its README cut to the lines shown
package_after_render_cut(p, readme_wanted, max_lines, extra) ==
    IF readme_wanted /\ Truthy(p.readme)
    THEN [p EXCEPT !.readme =
            join(<<NL>>, slice_to(splitlines(strip(p.readme)), max_lines))]
    ELSE p

\* the PackageInfo after render_package returned: no statement of the function
\* or of the functions it calls assigns to the package or to an object in it
package_after_render(p, readme_wanted, max_lines, extra) == p

PackageInfo(version, summary, readme, mods) ==
    [ name |-> <<"pkg">>, version |-> version, summary |-> summary,
      readme |-> readme, modules |-> mods ]

\* README texts: absent, empty, blank, and content lines l1, l2, ... with or
\* without blank lines before and after them
LineTok == <<"l1", "l2", "l3", "l4", "l5">>

Readmes ==
    {None, <<>>, <<NL>>, <<SP, NL>>}
    \cup { lead \o join(<<NL>>, [i \in 1..n |-> <<LineTok[i]>>]) \o trail :
             n \in 1..MaxReadme, lead \in {<<>>, <<NL>>}, trail \in {<<>>, <<NL, NL>>} }

ExtraContexts == {None, <<SP>>, <<SP, "note", NL>>}

\* the modules of a package: the i-th is named pkg.m<i>
ModTok == <<"m1", "m2", "m3", "m4">>
ModuleKinds == {"empty", "emptydoc", "doc", "class", "private_function", "variable"}

ModuleOf(kind, i) ==
    [ name |-> <<"pkg", ".", ModTok[i]>>,
      docstring |-> IF kind = "doc" THEN <<"Doc", ".">>
                    ELSE IF kind = "emptydoc" THEN <<>> ELSE None,
      classes |-> IF kind = "class" THEN <<ClassInfo(<<"K">>, <<>>, <<>>, <<>>)>> ELSE <<>>,
      functions |-> IF kind = "private_function"
                    THEN <<FunctionInfo(<<"_", "helper">>, <<>>)>> ELSE <<>>,
      variables |-> IF kind = "variable" THEN <<VariableInfo(<<"debug">>, None)>> ELSE <<>>,
      all_exports |-> NoneList ]

ModuleLists ==
    { [i \in 1..Len(kinds) |-> ModuleOf(kinds[i], i)] :
        kinds \in SeqsUpTo(ModuleKinds, MaxModules) }

\* packages: every README with at most one module, and every module list
\* with no README or a one-line README
PackageInfos ==
    { PackageInfo(h[1], h[2], readme, mods) :
        h \in { <<None, None>>, <<<<"1.0">>, <<"summary">>>> },
        readme \in Readmes, mods \in {m \in ModuleLists : Len(m) <= 1} }
    \cup { PackageInfo(None, None, readme, mods) :
             readme \in {None, <<"l1">>}, mods \in ModuleLists }

----------------------------------------------------------------------------
(* cli.main *)

\* the most packages named on one command line
MaxPackages == 2

\* Names given on the command line: p and q are installed, p with its own
\* [tool.libcontext] section and q without one; bad is installed with an
\* ill-shaped section; gone is not installed.
Installed == {"p", "q", "bad"}
PackageArgs == Installed \cup {"gone"}

SectionOf_p ==
    [ include_modules |-> MISSING, exclude_modules |-> MISSING,
      include_private |-> MISSING, extra_context |-> PyStr(<<"np">>),
      max_readme_lines |-> PyInt(1) ]
SectionOf_bad == [SectionOf_p EXCEPT !.max_readme_lines = PyStr(<<"1">>)]

\* the [tool.libcontext] sections of the files --config can name
SectionOf_good ==
    [SectionOf_p EXCEPT !.extra_context = PyStr(<<"nf">>),
                        !.max_readme_lines = PyInt(2)]
SectionOf_illshaped == [SectionOf_p EXCEPT !.include_modules = PyStr(<<"pkg">>)]

\* read_config_from_pyproject(config_path)
read_config_from_pyproject(config_path) ==
    IF config_path = "good" THEN from_dict(SectionOf_good)
    ELSE from_dict(SectionOf_illshaped)

\* find_config_for_package(pkg_path): the section found near the package, or
\* LibcontextConfig() when there is none
find_config_for_package(pkg) ==
    IF pkg = "p" THEN from_dict(SectionOf_p)
    ELSE IF pkg = "bad" THEN from_dict(SectionOf_bad)
    ELSE [raised |-> "none", config |-> DefaultConfig]

\* the README found for every installed package
CliReadme == <<"l1", NL, "l2", NL, "l3">>

\* config: LibcontextConfig | None of main
NoCliConfig == [given |-> FALSE, config |-> DefaultConfig]

\* collect_package(pkg_name, include_private=..., include_readme=...,
\* config_override=config) as main calls it: the exception raised, and the
\* PackageInfo when none is
cli_collect_package(pkg, readme_wanted, config) ==
    LET found == IF config.given THEN [raised |-> "none", config |-> config.config]
                 ELSE find_config_for_package(pkg)
        info == [ PackageInfo(None, None,
                              IF readme_wanted THEN CliReadme ELSE None, <<>>)
                  EXCEPT !.name = <<pkg>> ]
    IN  IF pkg \notin Installed THEN [raised |-> "ValueError", info |-> info]
        ELSE IF found.raised # "none" THEN [raised |-> found.raised, info |-> info]
        ELSE [raised |-> "none", info |-> info]

\* the arguments main passes to render_package: readme_lines and
\* config.extra_context if config else None
render_arguments(pkg, max_lines_option, config) ==
    LET readme_lines1 == IF max_lines_option # PyNone THEN max_lines_option
                         ELSE IF config.given
                         THEN PyInt(config.config.max_readme_lines)
                         ELSE PyNone
        readme_lines == IF readme_lines1 = PyNone THEN 100 ELSE readme_lines1.number
    IN  [ max_readme_lines |-> readme_lines,
          extra_context |-> IF config.given THEN config.config.extra_context
                            ELSE None ]

\* the output file: absent, readable, or holding bytes that are not UTF-8
NoFile == [exists |-> FALSE, readable |-> TRUE, text |-> <<>>]
TextFile(text) == [exists |-> TRUE, readable |-> TRUE, text |-> text]
BinaryFile == [exists |-> TRUE, readable |-> FALSE, text |-> <<"<bytes>">>]

OutputFiles ==
    { NoFile, BinaryFile, TextFile(<<"x", NL>>),
      TextFile(<<"x", NL>> \o Block(<<"old">>, "p")) }

\* the loop over all_blocks: result = inject_into_file(md, pkg_name, result)
RECURSIVE inject_all(_, _)
inject_all(blocks, text) ==
    IF blocks = <<>> THEN text
    ELSE inject_all(Tail(blocks),
                    inject_into_file(Head(blocks).md, Head(blocks).name, text))

\* the loop over all_blocks on stdout: every block followed by a newline
RECURSIVE print_all(_)
print_all(blocks) ==
    IF blocks = <<>> THEN <<>>
    ELSE Head(blocks).md \o <<NL>> \o print_all(Tail(blocks))

\* command lines
CommandLines ==
    [ packages : { q \in SeqsUpTo(PackageArgs, MaxPackages) :
                     /\ q # <<>>
                     /\ \A i, j \in 1..Len(q) : i # j => q[i] # q[j] },
      config_path : {"none", "good", "illshaped"},
      max_readme_lines : {PyNone, PyInt(3)},
      include_private : BOOLEAN,
      no_readme : BOOLEAN,
      output : BOOLEAN ]

----------------------------------------------------------------------------
(* Inputs of _first_paragraph and of the variable lists of _render_module *)

\* the longest docstring, in tokens
MaxDoc == 6

DocTokens == {"a", "b", SP, NL}

Docstrings == {None} \cup UNION { [1..n -> DocTokens] : n \in 0..MaxDoc }

\* the most variables of one module
MaxVars == 2

\* names in upper case, in lower case, in both, without a letter, and with
\* letters that have no case
VariableNames ==
    { <<"LIMIT">>, <<"MAX", "_", "1">>, <<"debug">>, <<"Max">>, <<"MAX", "_", "x">>,
      <<"_", "1">>, <<"_", "LIMIT">>, <<"MAX", "_", "<ideograph>">>, <<"<ideograph>">> }

VariableModules ==
    { [ name |-> <<"pkg", ".", "core">>, docstring |-> None,
        classes |-> <<>>, functions |-> <<>>,
        variables |-> [i \in 1..Len(names) |-> VariableInfo(names[i], None)],
        all_exports |-> exports ] :
        names \in { q \in SeqsUpTo(VariableNames, MaxVars) :
                      \A i, j \in 1..Len(q) : i # j => q[i] # q[j] },
        exports \in { NoneList, << <<"_", "1">>, <<"_", "LIMIT">> >>,
                      << <<"debug">>, <<"MAX", "_", "1">>, <<"_", "1">> >> } }

----------------------------------------------------------------------------
(* Values of the variables a specification does not use *)

InjectIdle ==
    /\ content = <<>> /\ package_name = "p" /\ existing = None
    /\ result = None /\ again = None /\ pc = "idle"

CollectIdle ==
    /\ heap = [a \in {OVERRIDE, COPY} |-> DefaultConfig]
    /\ initial = heap[OVERRIDE]
    /\ calls = <<>> /\ modules = <<>>

ExportIdle == tree = <<>> /\ all_exports = NoneList /\ extracted = FALSE

RenderIdle == module = ModuleInfo(NoneList) /\ rendered = None

MemberIdle ==
    /\ member_name = <<"x">> /\ member_is_method = FALSE
    /\ member_public = FALSE /\ member_checked = FALSE

ParamIdle ==
    /\ fn_args = Arguments(<<>>, <<>>, NoArg, <<>>, <<>>, NoArg, <<>>)
    /\ fn_params = <<>> /\ fn_extracted = FALSE
    /\ sig_compact = FALSE /\ signature = None
    /\ as_method = None /\ as_function = None

PackageIdle ==
    /\ package = PackageInfo(None, None, None, <<>>)
    /\ include_readme = TRUE /\ max_readme_lines = 100 /\ extra_context = None
    /\ document = None

WalkIdle ==
    /\ walk_is_file = FALSE /\ walk_config = DefaultConfig
    /\ walk_outcomes = [i \in 1..Len(WalkFiles) |-> "ok"]
    /\ walk_modules = <<>> /\ walk_status = "idle"

ConfigIdle ==
    /\ cfg_data = [k \in DOMAIN SectionOf_p |-> MISSING]
    /\ cfg_config = DefaultConfig /\ cfg_raised = "none" /\ cfg_called = FALSE

CliIdle ==
    /\ argv = [ packages |-> <<"p">>, config_path |-> "none",
                max_readme_lines |-> PyNone, include_private |-> FALSE,
                no_readme |-> FALSE, output |-> FALSE ]
    /\ cli_pc = "idle" /\ cli_config = NoCliConfig
    /\ all_blocks = <<>> /\ render_calls = <<>>
    /\ out_before = NoFile /\ out_file = NoFile
    /\ stdout = <<>> /\ exit_status = -1

ParagraphIdle == docstring = None /\ paragraph = None /\ paragraph_done = FALSE

RepeatIdle ==
    /\ package_before = PackageInfo(None, None, None, <<>>)
    /\ document_again = None

----------------------------------------------------------------------------
(* Specification of one injection and its repetition *)

InitInjectFrom(texts) ==
    /\ content \in Contents
    /\ package_name = "p"
    /\ existing \in texts \cup {None}
    /\ result = None
    /\ again = None
    /\ pc = "start"
    /\ output = None /\ latest = [n \in Packages |-> NoContent]
    /\ CollectIdle
    /\ ExportIdle
    /\ RenderIdle
    /\ MemberIdle /\ ParamIdle /\ PackageIdle
    /\ WalkIdle /\ ConfigIdle /\ CliIdle /\ ParagraphIdle /\ RepeatIdle

InjectOnce ==
    /\ pc = "start"
    /\ result' = inject_into_file(content, package_name, existing)
    /\ pc' = "once"
    /\ UNCHANGED <<content, package_name, existing, again, fileVars, collectVars, exportVars,
                 renderVars, memberVars, paramVars, packageVars,
                 walkVars, configVars, cliVars, paragraphVars, repeatVars>>

InjectAgain ==
    /\ pc = "once"
    /\ again' = inject_into_file(content, package_name, result)
    /\ pc' = "twice"
    /\ UNCHANGED <<content, package_name, existing, result, fileVars, collectVars, exportVars,
                 renderVars, memberVars, paramVars, packageVars,
                 walkVars, configVars, cliVars, paragraphVars, repeatVars>>

NextInject == InjectOnce \/ InjectAgain

InitInject == InitInjectFrom(Texts)
InitInjectCut == InitInjectFrom(CutTexts)

----------------------------------------------------------------------------
(* Specification of repeated collect_package calls on one configuration *)

InitCollect ==
    /\ InjectIdle
    /\ ExportIdle
    /\ RenderIdle
    /\ MemberIdle /\ ParamIdle /\ PackageIdle
    /\ WalkIdle /\ ConfigIdle /\ CliIdle /\ ParagraphIdle /\ RepeatIdle
    /\ output = None /\ latest = [n \in Packages |-> NoContent]
    /\ \E c \in Configs :
         /\ heap = [a \in {OVERRIDE, COPY} |-> c]
         /\ initial = c
    /\ calls = <<>>
    /\ modules = <<>>

\* collect_package(pkg, include_private=..., config_override=<object at OVERRIDE>)
collect_package(include_private) ==
    /\ Len(calls) < MaxCalls
    /\ LET copied == copy_copy(heap, OVERRIDE)
           config == copied.ref
           heap2 == IF include_private
                    THEN [copied.h EXCEPT ![config].include_private = TRUE]
                    ELSE copied.h
       IN  /\ heap' = heap2
           /\ modules' = walk_package(PkgFiles, PkgName, heap2[config])
    /\ calls' = Append(calls, include_private)
    /\ UNCHANGED <<initial, injectVars, fileVars, exportVars,
                 renderVars, memberVars, paramVars, packageVars,
                 walkVars, configVars, cliVars, paragraphVars, repeatVars>>

NextCollect == \E include_private \in BOOLEAN : collect_package(include_private)

----------------------------------------------------------------------------
(* Specification of the export-list extraction of one module *)

InitExports ==
    /\ InjectIdle
    /\ CollectIdle
    /\ RenderIdle
    /\ MemberIdle /\ ParamIdle /\ PackageIdle
    /\ WalkIdle /\ ConfigIdle /\ CliIdle /\ ParagraphIdle /\ RepeatIdle
    /\ output = None /\ latest = [n \in Packages |-> NoContent]
    /\ tree \in Trees
    /\ all_exports = NoneList
    /\ extracted = FALSE

\* all_exports = _extract_all_exports(tree)
ExtractExports ==
    /\ ~extracted
    /\ all_exports' = extract_all_exports(tree)
    /\ extracted' = TRUE
    /\ UNCHANGED <<tree, injectVars, fileVars, collectVars,
                 renderVars, memberVars, paramVars, packageVars,
                 walkVars, configVars, cliVars, paragraphVars, repeatVars>>

NextExports == ExtractExports

----------------------------------------------------------------------------
(* Specification of the rendering of one module *)

InitRender ==
    /\ InjectIdle
    /\ CollectIdle
    /\ ExportIdle
    /\ output = None /\ latest = [n \in Packages |-> NoContent]
    /\ module \in Modules
    /\ rendered = None
    /\ MemberIdle /\ ParamIdle /\ PackageIdle
    /\ WalkIdle /\ ConfigIdle /\ CliIdle /\ ParagraphIdle /\ RepeatIdle

\* lines.append(_render_module(module))
RenderModule ==
    /\ rendered = None
    /\ rendered' = _render_module(module)
    /\ UNCHANGED <<module, injectVars, fileVars, collectVars, exportVars,
                 memberVars, paramVars, packageVars,
                 walkVars, configVars, cliVars, paragraphVars, repeatVars>>

NextRender == RenderModule

----------------------------------------------------------------------------
(* Specification of one call of is_public_member *)

\* names with and without leading and trailing underscores, among them every
\* name of the allow-list
MemberNames ==
    USEFUL_DUNDERS
    \cup { Dunder("del"), Dunder("version"), Dunder("slots"), Dunder("all"),
           <<"_", "_">>, <<"_", "_", "_">>, <<"_">>, <<"x">>, <<"_", "x">>,
           <<"_", "_", "x">>, <<"x", "_", "_">>, <<"x", "_">>,
           <<"_", "_", "x", "_">>, <<"_", "x", "_", "_">>, <<"init">>,
           <<"_", "init", "_", "_">>, <<"_", "_", "init">> }

InitPublic ==
    /\ InjectIdle /\ CollectIdle /\ ExportIdle /\ RenderIdle
    /\ ParamIdle /\ PackageIdle
    /\ WalkIdle /\ ConfigIdle /\ CliIdle /\ ParagraphIdle /\ RepeatIdle
    /\ output = None /\ latest = [n \in Packages |-> NoContent]
    /\ member_name \in MemberNames
    /\ member_is_method = FALSE
    /\ member_public = FALSE
    /\ member_checked = FALSE

\* member_public = is_public_member(member_name, is_method)
IsPublicMember(is_method) ==
    /\ ~member_checked
    /\ member_is_method' = is_method
    /\ member_public' = is_public_member(member_name, is_method)
    /\ member_checked' = TRUE
    /\ UNCHANGED <<member_name, injectVars, fileVars, collectVars, exportVars,
                   renderVars, paramVars, packageVars,
                 walkVars, configVars, cliVars, paragraphVars, repeatVars>>

NextPublic == \E is_method \in BOOLEAN : IsPublicMember(is_method)

----------------------------------------------------------------------------
(* Specification of the extraction and display of one parameter list *)

InitParams ==
    /\ InjectIdle /\ CollectIdle /\ ExportIdle /\ RenderIdle
    /\ MemberIdle /\ PackageIdle
    /\ WalkIdle /\ ConfigIdle /\ CliIdle /\ ParagraphIdle /\ RepeatIdle
    /\ output = None /\ latest = [n \in Packages |-> NoContent]
    /\ fn_args \in ArgumentLists
    /\ fn_params = <<>> /\ fn_extracted = FALSE
    /\ sig_compact = FALSE /\ signature = None
    /\ as_method = None /\ as_function = None

\* parameters=_extract_parameters(node.args) of _extract_function
ExtractParameters ==
    /\ ~fn_extracted
    /\ fn_params' = _extract_parameters(fn_args)
    /\ fn_extracted' = TRUE
    /\ UNCHANGED <<fn_args, sig_compact, signature, as_method, as_function,
                   injectVars, fileVars, collectVars, exportVars, renderVars,
                   memberVars, packageVars,
                 walkVars, configVars, cliVars, paragraphVars, repeatVars>>

\* _format_signature(func, compact=...)
FormatSignature(as_compact) ==
    /\ fn_extracted /\ signature = None
    /\ sig_compact' = as_compact
    /\ signature' = _format_signature(FunctionOf(fn_params), as_compact)
    /\ UNCHANGED <<fn_args, fn_params, fn_extracted, as_method, as_function,
                   injectVars, fileVars, collectVars, exportVars, renderVars,
                   memberVars, packageVars,
                 walkVars, configVars, cliVars, paragraphVars, repeatVars>>

\* _render_class of a class whose one method is the function
RenderMethod ==
    /\ fn_extracted /\ as_method = None
    /\ as_method' = _render_class(ClassWith(FunctionOf(fn_params)))
    /\ UNCHANGED <<fn_args, fn_params, fn_extracted, sig_compact, signature,
                   as_function, injectVars, fileVars, collectVars, exportVars,
                   renderVars, memberVars, packageVars,
                 walkVars, configVars, cliVars, paragraphVars, repeatVars>>

\* _render_module of a module whose one declaration is the function
RenderFunction ==
    /\ fn_extracted /\ as_function = None
    /\ as_function' = _render_module(ModuleWith(FunctionOf(fn_params)))
    /\ UNCHANGED <<fn_args, fn_params, fn_extracted, sig_compact, signature,
                   as_method, injectVars, fileVars, collectVars, exportVars,
                   renderVars, memberVars, packageVars,
                 walkVars, configVars, cliVars, paragraphVars, repeatVars>>

NextParams ==
    \/ ExtractParameters
    \/ \E as_compact \in BOOLEAN : FormatSignature(as_compact)
    \/ RenderMethod
    \/ RenderFunction

----------------------------------------------------------------------------
(* Specification of one call of render_package *)

InitPackage ==
    /\ InjectIdle /\ CollectIdle /\ ExportIdle /\ RenderIdle
    /\ MemberIdle /\ ParamIdle
    /\ WalkIdle /\ ConfigIdle /\ CliIdle /\ ParagraphIdle /\ RepeatIdle
    /\ output = None /\ latest = [n \in Packages |-> NoContent]
    /\ package \in PackageInfos
    /\ include_readme = TRUE /\ max_readme_lines = 100 /\ extra_context = None
    /\ document = None

\* document = render_package(package, include_readme=..., max_readme_lines=...,
\* extra_context=...)
RenderPackage(readme_wanted, max_lines, extra) ==
    /\ document = None
    /\ include_readme' = readme_wanted
    /\ max_readme_lines' = max_lines
    /\ extra_context' = extra
    /\ document' = render_package(package, readme_wanted, max_lines, extra)
    /\ UNCHANGED <<package, injectVars, fileVars, collectVars, exportVars,
                   renderVars, memberVars, paramVars,
                   walkVars, configVars, cliVars, paragraphVars, repeatVars>>

NextPackage ==
    \E readme_wanted \in BOOLEAN, max_lines \in 1..MaxReadme, extra \in ExtraContexts :
        RenderPackage(readme_wanted, max_lines, extra)

----------------------------------------------------------------------------
(* Specification of one call of _walk_package *)

InitWalk ==
    /\ InjectIdle /\ CollectIdle /\ ExportIdle /\ RenderIdle
    /\ MemberIdle /\ ParamIdle /\ PackageIdle /\ ConfigIdle
    /\ CliIdle /\ ParagraphIdle /\ RepeatIdle
    /\ output = None /\ latest = [n \in Packages |-> NoContent]
    /\ \/ /\ walk_is_file = FALSE
          /\ walk_config \in WalkConfigs
          /\ walk_outcomes \in WalkOutcomes
       \/ /\ walk_is_file = TRUE
          /\ walk_config = DefaultConfig
          /\ walk_outcomes \in {o \in WalkOutcomes : \A i \in 2..Len(WalkFiles) : o[i] = "ok"}
    /\ walk_modules = <<>>
    /\ walk_status = "idle"

\* modules = _walk_package(pkg_path, pkg_name, config)
WalkPackage ==
    /\ walk_status = "idle"
    /\ LET walked == _walk_package(walk_is_file, WalkFiles, PkgName, walk_config,
                                   walk_outcomes)
       IN  /\ walk_modules' = walked.modules
           /\ walk_status' = IF walked.raised = "none" THEN "returned"
                             ELSE walked.raised
    /\ UNCHANGED <<walk_is_file, walk_config, walk_outcomes, injectVars,
                   fileVars, collectVars, exportVars, renderVars, memberVars,
                   paramVars, packageVars, configVars, cliVars,
                   paragraphVars, repeatVars>>

NextWalk == WalkPackage

----------------------------------------------------------------------------
(* Specification of one call of LibcontextConfig.from_dict *)

InitConfig ==
    /\ InjectIdle /\ CollectIdle /\ ExportIdle /\ RenderIdle
    /\ MemberIdle /\ ParamIdle /\ PackageIdle /\ WalkIdle
    /\ CliIdle /\ ParagraphIdle /\ RepeatIdle
    /\ output = None /\ latest = [n \in Packages |-> NoContent]
    /\ cfg_data \in Dicts
    /\ cfg_config = DefaultConfig /\ cfg_raised = "none" /\ cfg_called = FALSE

\* LibcontextConfig.from_dict(cfg_data)
FromDict ==
    /\ ~cfg_called
    /\ cfg_config' = from_dict(cfg_data).config
    /\ cfg_raised' = from_dict(cfg_data).raised
    /\ cfg_called' = TRUE
    /\ UNCHANGED <<cfg_data, injectVars, fileVars, collectVars, exportVars,
                   renderVars, memberVars, paramVars, packageVars, walkVars,
                   cliVars, paragraphVars, repeatVars>>

NextConfig == FromDict

----------------------------------------------------------------------------
(* Specification of one run of the command line *)

InitCli ==
    /\ InjectIdle /\ CollectIdle /\ ExportIdle /\ RenderIdle
    /\ MemberIdle /\ ParamIdle /\ PackageIdle /\ WalkIdle
    /\ ConfigIdle /\ ParagraphIdle /\ RepeatIdle
    /\ output = None /\ latest = [n \in Packages |-> NoContent]
    /\ argv \in CommandLines
    /\ out_before \in IF argv.output THEN OutputFiles ELSE {NoFile}
    /\ out_file = out_before
    /\ cli_pc = "config" /\ cli_config = NoCliConfig
    /\ all_blocks = <<>> /\ render_calls = <<>>
    /\ stdout = <<>> /\ exit_status = -1

\* "Resolve configuration": read the --config file, set include_private in it
ResolveConfig ==
    /\ cli_pc = "config"
    /\ IF argv.config_path = "none"
       THEN /\ cli_config' = NoCliConfig
            /\ cli_pc' = "collect"
            /\ exit_status' = exit_status
       ELSE LET read == read_config_from_pyproject(argv.config_path)
            IN  IF read.raised = "TypeError"
                THEN /\ cli_config' = cli_config
                     /\ cli_pc' = "exited"
                     /\ exit_status' = 1
                ELSE /\ cli_config' =
                           [ given |-> TRUE,
                             config |-> IF argv.include_private
                                        THEN [read.config EXCEPT !.include_private = TRUE]
                                        ELSE read.config ]
                     /\ cli_pc' = "collect"
                     /\ exit_status' = exit_status
    /\ UNCHANGED <<argv, all_blocks, render_calls, out_before, out_file,
                   stdout, injectVars, fileVars, collectVars, exportVars,
                   renderVars, memberVars, paramVars, packageVars, walkVars,
                   configVars, paragraphVars, repeatVars>>

\* one turn of the loop with every block written to the file as soon as rendered
CollectNext_eager ==
    /\ cli_pc = "collect"
    /\ LET pkg_name == argv.packages[Len(all_blocks) + 1]
           collected == cli_collect_package(pkg_name, ~argv.no_readme, cli_config)
           arguments == render_arguments(pkg_name, argv.max_readme_lines, cli_config)
           md == render_package(collected.info, ~argv.no_readme,
                                arguments.max_readme_lines, arguments.extra_context)
       IN  IF collected.raised \in {"ValueError", "TypeError"}
           THEN /\ cli_pc' = "exited"
                /\ exit_status' = 1
                /\ UNCHANGED <<all_blocks, render_calls, out_file>>
           ELSE /\ all_blocks' = Append(all_blocks, [name |-> pkg_name, md |-> md])
                /\ render_calls' =
                       Append(render_calls,
                              [ name |-> pkg_name,
                                max_readme_lines |-> arguments.max_readme_lines,
                                extra_context |-> arguments.extra_context ])
                /\ cli_pc' = IF Len(all_blocks) + 1 = Len(argv.packages)
                             THEN "output" ELSE "collect"
                /\ exit_status' = exit_status
                /\ out_file' =
                       IF argv.output /\ out_file.readable
                       THEN TextFile(inject_into_file(md, pkg_name, out_file.text))
                       ELSE out_file
    /\ UNCHANGED <<argv, cli_config, out_before, stdout,
                   injectVars, fileVars, collectVars, exportVars, renderVars,
                   memberVars, paramVars, packageVars, walkVars, configVars,
                   paragraphVars, repeatVars>>

\* one turn of the loop over packages: collect, render, append to all_blocks
CollectNext ==
    /\ cli_pc = "collect"
    /\ LET pkg_name == argv.packages[Len(all_blocks) + 1]
           collected == cli_collect_package(pkg_name, ~argv.no_readme, cli_config)
           arguments == render_arguments(pkg_name, argv.max_readme_lines, cli_config)
           md == render_package(collected.info, ~argv.no_readme,
                                arguments.max_readme_lines, arguments.extra_context)
       IN  IF collected.raised \in {"ValueError", "TypeError"}
           THEN /\ cli_pc' = "exited"
                /\ exit_status' = 1
                /\ UNCHANGED <<all_blocks, render_calls>>
           ELSE /\ all_blocks' = Append(all_blocks, [name |-> pkg_name, md |-> md])
                /\ render_calls' =
                       Append(render_calls,
                              [ name |-> pkg_name,
                                max_readme_lines |-> arguments.max_readme_lines,
                                extra_context |-> arguments.extra_context ])
                /\ cli_pc' = IF Len(all_blocks) + 1 = Len(argv.packages)
                             THEN "output" ELSE "collect"
                /\ exit_status' = exit_status
    /\ UNCHANGED <<argv, cli_config, out_before, out_file, stdout,
                   injectVars, fileVars, collectVars, exportVars, renderVars,
                   memberVars, paramVars, packageVars, walkVars, configVars,
                   paragraphVars, repeatVars>>

\* "Output": the blocks on stdout, or injected into the output file.  A
\* write_text that raises OSError leaves the file as it was (written = "none":
\* it could not be opened) or empty or cut short (opened, then the write failed).
WriteOutput(written) ==
    /\ cli_pc = "output"
    /\ IF ~argv.output
       THEN /\ stdout' = print_all(all_blocks)
            /\ out_file' = out_file
            /\ cli_pc' = "done"
            /\ exit_status' = 0
       ELSE IF out_file.exists /\ ~out_file.readable
       THEN /\ UNCHANGED <<stdout, out_file>>
            /\ cli_pc' = "exited"
            /\ exit_status' = 1
       ELSE LET existing_text == IF out_file.exists THEN out_file.text ELSE <<>>
                result_text == inject_all(all_blocks, existing_text)
            IN  /\ out_file' =
                      IF written = "all" THEN TextFile(result_text)
                      ELSE IF written = "none" THEN out_file
                      ELSE IF written = "empty" THEN TextFile(<<>>)
                      ELSE TextFile(SubSeq(result_text, 1, 1))
                /\ stdout' = stdout
                /\ cli_pc' = IF written = "all" THEN "done" ELSE "exited"
                /\ exit_status' = IF written = "all" THEN 0 ELSE 1
    /\ UNCHANGED <<argv, cli_config, all_blocks, render_calls, out_before,
                   injectVars, fileVars, collectVars, exportVars, renderVars,
                   memberVars, paramVars, packageVars, walkVars, configVars,
                   paragraphVars, repeatVars>>

NextCli ==
    \/ ResolveConfig
    \/ CollectNext
    \/ \E written \in {"all", "none", "empty", "some"} : WriteOutput(written)

----------------------------------------------------------------------------
(* Specification of one call of _first_paragraph *)

InitParagraph ==
    /\ InjectIdle /\ CollectIdle /\ ExportIdle /\ RenderIdle
    /\ MemberIdle /\ ParamIdle /\ PackageIdle /\ WalkIdle
    /\ ConfigIdle /\ CliIdle /\ RepeatIdle
    /\ output = None /\ latest = [n \in Packages |-> NoContent]
    /\ docstring \in Docstrings
    /\ paragraph = None /\ paragraph_done = FALSE

\* doc = _first_paragraph(docstring)
FirstParagraph ==
    /\ ~paragraph_done
    /\ paragraph' = _first_paragraph(docstring)
    /\ paragraph_done' = TRUE
    /\ UNCHANGED <<docstring, injectVars, fileVars, collectVars, exportVars,
                   renderVars, memberVars, paramVars, packageVars, walkVars,
                   configVars, cliVars, repeatVars>>

NextParagraph == FirstParagraph

----------------------------------------------------------------------------
(* Specification of render_package called twice on one PackageInfo *)

InitRepeat ==
    /\ InjectIdle /\ CollectIdle /\ ExportIdle /\ RenderIdle
    /\ MemberIdle /\ ParamIdle /\ WalkIdle /\ ConfigIdle
    /\ CliIdle /\ ParagraphIdle
    /\ output = None /\ latest = [n \in Packages |-> NoContent]
    /\ package \in PackageInfos
    /\ package_before = package
    /\ include_readme = TRUE /\ max_readme_lines = 100 /\ extra_context = None
    /\ document = None /\ document_again = None

\* the first render_package(package, ...)
RenderOnce(readme_wanted, max_lines, extra) ==
    /\ document = None
    /\ include_readme' = readme_wanted
    /\ max_readme_lines' = max_lines
    /\ extra_context' = extra
    /\ document' = render_package(package, readme_wanted, max_lines, extra)
    /\ package' = package_after_render(package, readme_wanted, max_lines, extra)
    /\ UNCHANGED <<package_before, document_again, injectVars, fileVars,
                   collectVars, exportVars, renderVars, memberVars,
                   paramVars, walkVars, configVars, cliVars, paragraphVars>>

\* render_package called again on the same object with the same options
RenderAgain ==
    /\ document # None /\ document_again = None
    /\ document_again' =
           render_package(package, include_readme, max_readme_lines, extra_context)
    /\ package' = package_after_render(package, include_readme, max_readme_lines,
                                       extra_context)
    /\ UNCHANGED <<package_before, include_readme, max_readme_lines,
                   extra_context, document, injectVars, fileVars,
                   collectVars, exportVars, renderVars, memberVars,
                   paramVars, walkVars, configVars, cliVars, paragraphVars>>

NextRepeat ==
    \/ \E readme_wanted \in BOOLEAN, max_lines \in 1..MaxReadme, extra \in ExtraContexts :
         RenderOnce(readme_wanted, max_lines, extra)
    \/ RenderAgain

----------------------------------------------------------------------------
(* Specification of render_package under every accepted max_readme_lines *)

\* the integers from_dict accepts, around zero
NextAnyBound ==
    \E max_lines \in (0 - MaxReadme)..MaxReadme, extra \in {None} :
        RenderPackage(TRUE, max_lines, extra)

----------------------------------------------------------------------------
(* Specification of the rendering of the variables of one module *)

InitVariables ==
    /\ InjectIdle /\ CollectIdle /\ ExportIdle /\ MemberIdle
    /\ ParamIdle /\ PackageIdle /\ WalkIdle /\ ConfigIdle
    /\ CliIdle /\ ParagraphIdle /\ RepeatIdle
    /\ output = None /\ latest = [n \in Packages |-> NoContent]
    /\ module \in VariableModules
    /\ rendered = None

----------------------------------------------------------------------------
(* Specification of the output file under successive injections *)

\* result = existing or ""; result = inject_into_file(md, pkg_name,
\* existing=result); output.write_text(result).  output = None: no file yet.
WriteBlock(name, md) ==
    /\ output' = inject_into_file(md, name, IF output = None THEN <<>> ELSE output)
    /\ latest' = [latest EXCEPT ![name] = md]
    /\ UNCHANGED <<injectVars, collectVars, exportVars,
                 renderVars, memberVars, paramVars, packageVars,
                 walkVars, configVars, cliVars, paragraphVars, repeatVars>>

Init ==
    /\ InjectIdle
    /\ CollectIdle
    /\ ExportIdle
    /\ RenderIdle
    /\ MemberIdle /\ ParamIdle /\ PackageIdle
    /\ WalkIdle /\ ConfigIdle /\ CliIdle /\ ParagraphIdle /\ RepeatIdle
    /\ output \in {t \in CutTexts : ~HasMarker(t)} \cup {None}
    /\ latest = [n \in Packages |-> NoContent]

Next == \E name \in Packages, md \in CleanContents : WriteBlock(name, md)

vars == <<content, package_name, existing, result, again, pc, output, latest,
          heap, initial, calls, modules, tree, all_exports, extracted,
          module, rendered,
          member_name, member_is_method, member_public, member_checked,
          fn_args, fn_params, fn_extracted, sig_compact, signature,
          as_method, as_function,
          package, include_readme, max_readme_lines, extra_context, document,
          walk_is_file, walk_config, walk_outcomes, walk_modules, walk_status,
          cfg_data, cfg_config, cfg_raised, cfg_called,
          argv, cli_pc, cli_config, all_blocks, render_calls, out_before, out_file,
    stdout, exit_status,
          docstring, paragraph, paragraph_done,
          package_before, document_again>>

Spec == Init /\ [][Next]_vars
SpecInject == InitInject /\ [][NextInject]_vars
SpecInjectCut == InitInjectCut /\ [][NextInject]_vars
SpecCollect == InitCollect /\ [][NextCollect]_vars
SpecExports == InitExports /\ [][NextExports]_vars
SpecRender == InitRender /\ [][NextRender]_vars
SpecPublic == InitPublic /\ [][NextPublic]_vars
SpecParams == InitParams /\ [][NextParams]_vars
SpecPackage == InitPackage /\ [][NextPackage]_vars
SpecWalk == InitWalk /\ [][NextWalk]_vars
SpecConfig == InitConfig /\ [][NextConfig]_vars
SpecCli == InitCli /\ [][NextCli]_vars
SpecParagraph == InitParagraph /\ [][NextParagraph]_vars
SpecRepeat == InitRepeat /\ [][NextRepeat]_vars
SpecAnyBound == InitPackage /\ [][NextAnyBound]_vars
SpecVariables == InitVariables /\ [][NextRender]_vars

----------------------------------------------------------------------------
(* Helpers of the properties *)

Count(s, sub) == Cardinality(Occurrences(s, sub))

called == pc \in {"once", "twice"}

beginOf == <<BOPEN, SP, package_name, SP, CLOSE>>
endOf == <<EOPEN, SP, package_name, SP, CLOSE>>
freshBlock == beginOf \o <<NL>> \o content \o <<NL>> \o endOf

\* offset just after the last character of s that is not whitespace
LastInk(s) ==
    LET inked == {i \in 1..Len(s) : s[i] \notin Whitespace}
    IN  IF inked = {} THEN 0 ELSE CHOOSE i \in inked : \A j \in inked : j <= i

----------------------------------------------------------------------------
(* Properties of inject_into_file, checked under SpecInject and SpecInjectCut *)

\* C1: inject_into_file is idempotent: injecting the same content for the
\* same identifier into the result of an injection returns that result.
C1_Idempotent == pc = "twice" => again = result

Corrupt(ex) ==
    /\ ex # None
    /\ LET b == find(ex, beginOf)
           e == find(ex, endOf)
       IN  \/ (b = -1) # (e = -1)
           \/ b # -1 /\ e # -1 /\ e < b

\* C3: for a corrupt existing text every stale marker is removed, so the
\* result is marker-free text followed by the freshly appended block.
C3_StaleMarkersStripped ==
    (called /\ Corrupt(existing))
    => LET n == Len(result) - Len(freshBlock) - 1
       IN  /\ n >= 0
           /\ Slice(result, n, Len(result)) = freshBlock \o <<NL>>
           /\ find(Slice(result, 0, n), beginOf) = -1
           /\ find(Slice(result, 0, n), endOf) = -1

\* C4: for an existing text with a single stale begin marker, a single stale
\* end marker, or a single end marker followed by a single begin marker, the
\* result holds exactly one begin and one end marker, begin first (stated
\* for content free of marker text).
C4_OneWellFormedBlock ==
    (called /\ existing # None /\ ~HasMarker(content)
       /\ LET nb == Count(existing, beginOf)
              ne == Count(existing, endOf)
          IN  \/ nb = 1 /\ ne = 0
              \/ nb = 0 /\ ne = 1
              \/ nb = 1 /\ ne = 1 /\ find(existing, endOf) < find(existing, beginOf))
    => /\ Count(result, beginOf) = 1
       /\ Count(result, endOf) = 1
       /\ find(result, beginOf) < find(result, endOf)

\* C6: with no pre-existing text the result is exactly the begin marker, a
\* newline, the content, a newline and the end marker.
C6_FreshBlockOnly ==
    (called /\ existing = None)
    => result = <<"<!-- BEGIN LIBCONTEXT:", " ", package_name, " ", "-->", "\n">>
                \o content
                \o <<"\n", "<!-- END LIBCONTEXT:", " ", package_name, " ", "-->">>

C6_Witness == pc = "once" /\ existing = None /\ content = <<"x", NL, "x">>

\* C7: when the existing text holds neither marker, the result is the
\* existing text up to its last non-whitespace character, a blank-line
\* separator exactly when there is such a character, the fresh block and one
\* newline.
C7_AppendCase ==
    (called /\ existing # None
       /\ find(existing, beginOf) = -1 /\ find(existing, endOf) = -1)
    => result = Slice(existing, 0, LastInk(existing))
                \o (IF LastInk(existing) > 0 THEN <<NL, NL>> ELSE <<>>)
                \o freshBlock \o <<NL>>

C7_Witness ==
    /\ pc = "once" /\ existing # None
    /\ find(existing, beginOf) = -1 /\ find(existing, endOf) = -1
    /\ LastInk(existing) > 0 /\ LastInk(existing) < Len(existing)
    /\ Len(result) = LastInk(existing) + 2 + Len(freshBlock) + 1

----------------------------------------------------------------------------
(* Properties of the output file, checked under Spec *)

\* C5: the output file holds exactly one block per package written so far,
\* with the content of the latest write for that package, and no marker of a
\* package that was never written.
C5_BlocksCoexist ==
    \A n \in Packages :
        LET doc == IF output = None THEN <<>> ELSE output
            b == find(doc, BEGIN_MARKER(n))
            e == find(doc, END_MARKER(n))
        IN  IF latest[n] = NoContent
            THEN b = -1 /\ e = -1
            ELSE /\ Count(doc, BEGIN_MARKER(n)) = 1
                 /\ Count(doc, END_MARKER(n)) = 1
                 /\ b < e
                 /\ Slice(doc, b + Len(BEGIN_MARKER(n)), e)
                      = <<NL>> \o latest[n] \o <<NL>>

C5_Witness ==
    /\ output # None
    /\ latest["p"] = <<"x">> /\ latest["q"] = <<"x", NL, "x">>
    /\ find(output, BEGIN_MARKER("q")) < find(output, BEGIN_MARKER("p"))
    /\ find(output, BEGIN_MARKER("q")) > 0

----------------------------------------------------------------------------
(* Properties of collect_package, checked under SpecCollect *)

\* C8: collect_package never mutates the caller's configuration object, and a
\* call with include_private=False walks the package with the configuration
\* as the caller constructed it, whatever the earlier calls passed.
C8_ConfigNotMutated ==
    /\ heap[OVERRIDE] = initial
    /\ (calls # <<>> /\ ~calls[Len(calls)])
         => modules = walk_package(PkgFiles, PkgName, initial)

C8_Witness ==
    /\ calls = <<TRUE, FALSE>>
    /\ ~initial.include_private
    /\ initial.include_modules = <<>>
    /\ <<"pkg", ".", "sub", ".", "api">> \in SeqRange(modules)
    /\ <<"pkg", ".", "_", "internal">> \notin SeqRange(modules)

----------------------------------------------------------------------------
(* Properties of _extract_all_exports, checked under SpecExports *)

\* a statement the extraction recognises: an assignment with `__all__` among
\* its targets, or an augmentation of `__all__`, of a list or tuple display
Recognised(node) ==
    /\ node.node \in {"Assign", "AugAssign"}
    /\ \E i \in 1..Len(node.targets) :
           node.targets[i].node = "Name" /\ node.targets[i].id = "__all__"
    /\ node.value.node \in {"List", "Tuple"}

StringsOf(node) ==
    LET strs == {i \in 1..Len(node.value.elts) :
                    node.value.elts[i].node = "Constant"
                    /\ node.value.elts[i].type = "str"}
        RECURSIVE pick(_)
        pick(i) == IF i > Len(node.value.elts) THEN <<>>
                   ELSE (IF i \in strs THEN <<node.value.elts[i].value>> ELSE <<>>)
                        \o pick(i + 1)
    IN  pick(1)

\* the entries of the recognised statements of t from position i on
RECURSIVE EntriesFrom(_, _)
EntriesFrom(t, i) ==
    IF i > Len(t) THEN <<>>
    ELSE (IF Recognised(t[i]) THEN StringsOf(t[i]) ELSE <<>>) \o EntriesFrom(t, i + 1)

\* position of the last recognised plain assignment, 1 when there is none
LastAssign(t) ==
    LET as == {i \in 1..Len(t) : Recognised(t[i]) /\ t[i].node = "Assign"}
    IN  IF as = {} THEN 1 ELSE CHOOSE i \in as : \A j \in as : j <= i

\* C10: the export list is the concatenation, in source order, of the string
\* entries of every recognised assignment and augmentation of `__all__`.
C10_AccumulatesAll ==
    (extracted /\ \E i \in 1..Len(tree) : Recognised(tree[i]))
    => all_exports = EntriesFrom(tree, 1)

\* C10 (amended): the export list is the string entries of the last
\* recognised assignment of `__all__` followed, in source order, by those of
\* every recognised augmentation after it; without a recognised assignment
\* it is the entries of all recognised augmentations.
C10_LastAssignThenAugments ==
    (extracted /\ \E i \in 1..Len(tree) : Recognised(tree[i]))
    => all_exports = EntriesFrom(tree, LastAssign(tree))

C10_Witness ==
    /\ extracted
    /\ Len(tree) = 3
    /\ Recognised(tree[1]) /\ tree[1].node = "Assign"
    /\ Recognised(tree[2]) /\ tree[2].node = "Assign"
    /\ Recognised(tree[3]) /\ tree[3].node = "AugAssign"
    /\ all_exports = << <<"b">>, <<"e">> >>

\* C11: the export list is None exactly when the module has no recognised
\* assignment or augmentation of `__all__`; a module whose only statement is
\* a recognised one gets the string entries of that statement, which is the
\* empty list for `__all__ = []`; no entry that is not a string literal is
\* ever in the list.
C11_UnsetIffNoAssignment ==
    extracted =>
      /\ (all_exports = NoneList) <=> ~\E i \in 1..Len(tree) : Recognised(tree[i])
      /\ (Len(tree) = 1 /\ Recognised(tree[1])) => all_exports = StringsOf(tree[1])
      /\ (tree = <<Assign(<<NameTarget("__all__")>>, ListExpr(<<>>))>>)
            => (all_exports = <<>> /\ all_exports # NoneList)
      /\ all_exports # NoneList
            => \A i \in 1..Len(all_exports) : all_exports[i] \notin {<<"1">>, <<"2">>, <<"n">>}

C11_Witness ==
    /\ extracted
    /\ tree = << Assign(<<NameTarget("x")>>, ListExpr(<<StrConst(<<"d">>)>>)),
                 Assign(<<NameTarget("__all__")>>, ListExpr(<<IntConst(<<"2">>)>>)) >>
    /\ all_exports = <<>>

----------------------------------------------------------------------------
(* Properties of _render_module, checked under SpecRender *)

Shows(text, piece) == find(text, piece) # -1

ClassShown(text, name) == Shows(text, <<TICK, "class", SP>> \o name \o <<TICK>>)
DefShown(text, name) == Shows(text, <<"-", SP, TICK, "def", SP>> \o name \o <<"(">>)
VarShown(text, name) ==
    \/ Shows(text, <<"-", SP, TICK>> \o name \o <<TICK>>)
    \/ Shows(text, <<"-", SP, TICK>> \o name \o <<SP, "=">>)

NamesOf(decls) == {decls[i].name : i \in 1..Len(decls)}

\* C9: with an explicit export list a top-level class, function or variable
\* is rendered exactly when its name is in the list; the members of a
\* rendered class are those the underscore/dunder rule makes public (the
\* methods __init__ and run, the attribute size, the nested class Meta),
\* whatever the list holds.
C9_ExportListOverride ==
    (rendered # None /\ module.all_exports # NoneList)
    => LET exported == {module.all_exports[i] : i \in 1..Len(module.all_exports)}
           anyClass == \E n \in NamesOf(TopClasses) : n \in exported
       IN  /\ \A n \in NamesOf(TopClasses) :
                 ClassShown(rendered, n) <=> n \in exported
           /\ \A n \in NamesOf(TopFunctions) :
                 DefShown(rendered, n) <=> n \in exported
           /\ \A n \in NamesOf(TopVariables) :
                 VarShown(rendered, n) <=> n \in exported
           /\ \A n \in {Dunder("init"), Dunder("del"), <<"run">>, <<"_", "step">>} :
                 DefShown(rendered, n)
                   <=> (anyClass /\ n \in {Dunder("init"), <<"run">>})
           /\ \A n \in {<<"size">>, <<"_", "cache">>, Dunder("slots")} :
                 VarShown(rendered, n) <=> (anyClass /\ n = <<"size">>)
           /\ \A n \in {<<"Meta">>, <<"_", "Inner">>} :
                 ClassShown(rendered, n) <=> (anyClass /\ n = <<"Meta">>)

C9_Witness ==
    /\ rendered # None /\ module.all_exports # NoneList
    /\ {module.all_exports[i] : i \in 1..Len(module.all_exports)}
         = {<<"_", "Hidden">>, <<"_", "helper">>, <<"_", "debug">>, <<"_", "step">>}
    /\ ClassShown(rendered, <<"_", "Hidden">>)
    /\ ~ClassShown(rendered, <<"Shown">>)
    /\ DefShown(rendered, <<"_", "helper">>)
    /\ ~DefShown(rendered, <<"_", "step">>)
    /\ DefShown(rendered, <<"run">>)

----------------------------------------------------------------------------
(* Properties of is_public_member, checked under SpecPublic *)

\* the name has two underscores at its start and two at its end
DunderName(n) ==
    /\ Len(n) >= 2
    /\ n[1] = "_" /\ n[2] = "_"
    /\ n[Len(n) - 1] = "_" /\ n[Len(n)] = "_"

\* C12: a name that starts and ends with a double underscore is public
\* exactly when is_method is true and the name is in the allow-list; any
\* other name is public exactly when its first character is not an
\* underscore; so a dunder is never public for a caller with is_method false.
C12_PublicMemberRule ==
    member_checked =>
      /\ DunderName(member_name)
           => (member_public <=> (member_is_method /\ member_name \in USEFUL_DUNDERS))
      /\ ~DunderName(member_name) => (member_public <=> member_name[1] # "_")
      /\ (DunderName(member_name) /\ ~member_is_method) => ~member_public

C12_Witness ==
    /\ member_checked
    /\ member_name = Dunder("init")
    /\ ~member_is_method
    /\ ~member_public

----------------------------------------------------------------------------
(* Properties of _extract_parameters, checked under SpecParams *)

KindsOf(params) == [i \in 1..Len(params) |-> params[i].kind]
ParamNamesOf(params) == [i \in 1..Len(params) |-> params[i].name]
ArgNames(group) == [i \in 1..Len(group) |-> group[i].arg]

\* a sequence of n copies of kind
Repeat(kind, n) == [i \in 1..n |-> kind]

\* the ast.arguments of `def f(a, b, /, c, *args, key, **kwargs)`
ComplexArguments ==
    Arguments(<<Arg(<<"a">>), Arg(<<"b">>)>>, <<Arg(<<"c">>)>>, Arg(<<"args">>),
              <<Arg(<<"key">>)>>, <<NoNode>>, Arg(<<"kwargs">>), <<>>)

\* C13: the extracted list has one parameter per source parameter, in the
\* order positional-only, positional-or-keyword, variadic-positional,
\* keyword-only, variadic-keyword, each group in source order; for
\* `a, b, /, c, *args, key, **kwargs` the kinds are POSITIONAL_ONLY,
\* POSITIONAL_ONLY, POSITIONAL_OR_KEYWORD, VAR_POSITIONAL, KEYWORD_ONLY,
\* VAR_KEYWORD.
C13_ParameterGroups ==
    fn_extracted =>
      /\ KindsOf(fn_params) =
           Repeat("POSITIONAL_ONLY", Len(fn_args.posonlyargs))
           \o Repeat("POSITIONAL_OR_KEYWORD", Len(fn_args.args))
           \o Repeat("VAR_POSITIONAL", IF fn_args.vararg = NoArg THEN 0 ELSE 1)
           \o Repeat("KEYWORD_ONLY", Len(fn_args.kwonlyargs))
           \o Repeat("VAR_KEYWORD", IF fn_args.kwarg = NoArg THEN 0 ELSE 1)
      /\ ParamNamesOf(fn_params) =
           ArgNames(fn_args.posonlyargs)
           \o ArgNames(fn_args.args)
           \o (IF fn_args.vararg = NoArg THEN <<>> ELSE << <<"*">> \o fn_args.vararg.arg >>)
           \o ArgNames(fn_args.kwonlyargs)
           \o (IF fn_args.kwarg = NoArg THEN <<>> ELSE << <<"**">> \o fn_args.kwarg.arg >>)
      /\ fn_args = ComplexArguments
           => KindsOf(fn_params) =
                << "POSITIONAL_ONLY", "POSITIONAL_ONLY", "POSITIONAL_OR_KEYWORD",
                   "VAR_POSITIONAL", "KEYWORD_ONLY", "VAR_KEYWORD" >>

C13_Witness ==
    /\ fn_extracted
    /\ fn_args = ComplexArguments
    /\ Len(fn_params) = 6
    /\ fn_params[4].name = <<"*", "args">>

\* the source text of the k-th positional default and of the k-th keyword default
DefaultText ==
    << <<"1">>, <<"'", "x", "'">>, <<"None">>, <<"2">>, <<"3">>, <<"4">> >>
KwDefaultText == << <<"7">>, <<"None">> >>

----------------------------------------------------------------------------
(* Properties of _format_signature and _render_function, checked under SpecParams *)

\* the pieces of a text between the separators ", "
RECURSIVE SplitParts(_)
SplitParts(text) ==
    IF text = <<>> THEN <<>>
    ELSE LET at == find(text, <<",", SP>>)
         IN  IF at = -1 THEN <<text>>
             ELSE <<Slice(text, 0, at)>> \o SplitParts(Slice(text, at + 2, Len(text)))

\* the pieces between the parentheses of the signature in a text
PartsOf(text) ==
    SplitParts(Slice(text, find(text, <<"(">>) + 1, find(text, <<")">>)))

IsImplicit(param) == param.name \in {<<"self">>, <<"cls">>}
NotImplicit(param) == ~IsImplicit(param)
OfKind(params, kind) == {i \in 1..Len(params) : params[i].kind = kind}

\* the parameters a signature displays
Displayed == IF sig_compact THEN SelectSeq(fn_params, NotImplicit) ELSE fn_params

SlashAt(parts) == {i \in 1..Len(parts) : parts[i] = <<"/">>}
StarAt(parts) == {i \in 1..Len(parts) : parts[i] = <<"*">>}

\* the `/` separator: once, right after the last displayed positional-only
\* parameter, exactly when one is displayed
SlashRule(parts) ==
    LET nPO == Cardinality(OfKind(Displayed, "POSITIONAL_ONLY"))
    IN  IF nPO = 0 THEN SlashAt(parts) = {}
        ELSE /\ SlashAt(parts) = {nPO + 1}
             /\ startswith(parts[nPO], Displayed[nPO].name)
             /\ (nPO = Len(Displayed) => Len(parts) = nPO + 1)

\* C15: the signature has the `/` separator once, right after the last
\* displayed positional-only parameter, exactly when a positional-only
\* parameter is displayed; it has the bare `*` separator once, right before
\* the first keyword-only parameter, exactly when the function has a
\* keyword-only parameter and no variadic-positional parameter.
C15_Separators ==
    signature # None =>
      LET parts == PartsOf(signature)
          kwonly == OfKind(fn_params, "KEYWORD_ONLY")
      IN  /\ SlashRule(parts)
          /\ IF kwonly # {} /\ OfKind(fn_params, "VAR_POSITIONAL") = {}
             THEN \E i \in 1..(Len(parts) - 1) :
                     /\ StarAt(parts) = {i}
                     /\ startswith(parts[i + 1], fn_params[Min(kwonly)].name)
             ELSE StarAt(parts) = {}

\* C15 (amended): the `/` separator as before; the bare `*` separator occurs
\* once, right before the first displayed keyword-only parameter, exactly
\* when a keyword-only parameter is displayed and the function has no
\* variadic-positional parameter.
C15_SeparatorsOfDisplayed ==
    signature # None =>
      LET parts == PartsOf(signature)
          kwonly == OfKind(Displayed, "KEYWORD_ONLY")
      IN  /\ SlashRule(parts)
          /\ IF kwonly # {} /\ OfKind(Displayed, "VAR_POSITIONAL") = {}
             THEN \E i \in 1..(Len(parts) - 1) :
                     /\ StarAt(parts) = {i}
                     /\ startswith(parts[i + 1], Displayed[Min(kwonly)].name)
             ELSE StarAt(parts) = {}

\* `def f(a, /, *, cls, key)` displayed without self and cls
C15_Witness ==
    /\ signature # None /\ sig_compact
    /\ ParamNamesOf(fn_params) = << <<"a">>, <<"cls">>, <<"key">> >>
    /\ KindsOf(fn_params) = <<"POSITIONAL_ONLY", "KEYWORD_ONLY", "KEYWORD_ONLY">>
    /\ PartsOf(signature) = << <<"a">>, <<"/">>, <<"*">>, <<"key">> >>

\* the parameter names a rendered signature displays, separators left out
NameOfPart(part) ==
    IF find(part, <<SP>>) = -1 THEN part ELSE Slice(part, 0, find(part, <<SP>>))

ShownNames(text) ==
    LET parts == PartsOf(text)
        named(part) == part \notin {<<"/">>, <<"*">>}
        kept == SelectSeq(parts, named)
    IN  [i \in 1..Len(kept) |-> NameOfPart(kept[i])]

\* C16: a function rendered in the Methods list of a class displays its
\* parameters except those named self or cls, and the FunctionInfo keeps them
\* (the full signature still shows every one); a function rendered under the
\* Functions label of a module displays every one of its parameters, also
\* one named self or cls.
C16_ImplicitOnlyInMethods ==
    /\ as_method # None
         => /\ Shows(as_method, <<"**Methods:**">>)
            /\ ShownNames(as_method) = ParamNamesOf(SelectSeq(fn_params, NotImplicit))
    /\ (signature # None /\ ~sig_compact)
         => ShownNames(signature) = ParamNamesOf(fn_params)
    /\ as_function # None
         => /\ Shows(as_function, <<"**Functions:**">>)
            /\ ShownNames(as_function) = ParamNamesOf(fn_params)

\* the display in a Methods list and the kept FunctionInfo, without the
\* display under the Functions label
C16_MethodsPart ==
    /\ as_method # None
         => /\ Shows(as_method, <<"**Methods:**">>)
            /\ ShownNames(as_method) = ParamNamesOf(SelectSeq(fn_params, NotImplicit))
    /\ (signature # None /\ ~sig_compact)
         => ShownNames(signature) = ParamNamesOf(fn_params)

----------------------------------------------------------------------------
(* Properties of render_package, checked under SpecPackage *)

\* the lines of the README exactly as the package holds it
RawLines == splitlines(package.readme)

\* the README is requested and has a line that is not blank
ReadmeIncluded ==
    /\ document # None /\ include_readme /\ package.readme # None
    /\ \E i \in 1..Len(package.readme) : package.readme[i] \notin {SP, NL}

\* offsets of the `## ` headings of the document
HeadingOffsets == Occurrences(document, <<"##", SP>>)

\* the text of the section under heading h: from the heading up to the next
\* `## ` heading or the end of the document
SectionText(h) ==
    LET from == find(document, h)
        later == {i \in HeadingOffsets : i > from}
    IN  Slice(document, from, IF later = {} THEN Len(document) ELSE Min(later))

\* a section of the given lines, closed by a blank line
SectionOf(h, body) == join(<<NL>>, <<h, <<>>>> \o body) \o <<NL>>

Holds(h, body) ==
    SectionText(h) \in {SectionOf(h, body), SectionOf(h, body) \o <<NL>>}

\* C17: a README of more than max_readme_lines lines is rendered as its
\* first max_readme_lines lines followed by the truncation marker; a README
\* of at most max_readme_lines lines is rendered whole, without the marker.
C17_TruncationBoundary ==
    ReadmeIncluded =>
      IF Len(RawLines) > max_readme_lines
      THEN Holds(H_OVERVIEW, SubSeq(RawLines, 1, max_readme_lines) \o << <<>>, TRUNCATED >>)
      ELSE /\ Holds(H_OVERVIEW, RawLines)
           /\ ~Shows(document, TRUNCATED)

\* the same for a README that neither starts nor ends with whitespace
C17_OnTrimmedReadme ==
    (ReadmeIncluded /\ strip(package.readme) = package.readme)
    => C17_TruncationBoundary

\* C18: truncation is decided on the lines of the README as supplied: the
\* marker appears exactly when the README has more than max_readme_lines
\* lines, blank lines at its start and end counted, and the Overview starts
\* with the first lines of the README as supplied, up to max_readme_lines.
C18_CountsRawLines ==
    ReadmeIncluded =>
      LET kept == IF Len(RawLines) > max_readme_lines
                  THEN max_readme_lines ELSE Len(RawLines)
      IN  /\ Shows(document, TRUNCATED) <=> Len(RawLines) > max_readme_lines
          /\ startswith(SectionText(H_OVERVIEW),
                        join(<<NL>>, <<H_OVERVIEW, <<>>>> \o SubSeq(RawLines, 1, kept)))

\* h is a whole line of the document
HasLine(h) ==
    \E at \in Occurrences(document, h) :
        /\ (at = 0 \/ document[at] = NL)
        /\ (at + Len(h) = Len(document) \/ document[at + Len(h) + 1] = NL)

\* the text is present and some character of it is not whitespace
NonBlank(text) == text # None /\ \E i \in 1..Len(text) : text[i] \notin {SP, NL}

\* the module has a class, a function, a variable or a docstring with text
HasContent(mod) ==
    \/ Len(mod.classes) > 0 \/ Len(mod.functions) > 0 \/ Len(mod.variables) > 0
    \/ (mod.docstring # None /\ Len(mod.docstring) > 0)

\* C19: the Overview heading appears only when the README is requested and
\* has non-whitespace content, the Notes heading only when extra_context has
\* non-whitespace content, the API Reference heading only when some module
\* is rendered.
C19_NoEmptySection ==
    document # None =>
      /\ HasLine(H_OVERVIEW) => (include_readme /\ NonBlank(package.readme))
      /\ HasLine(H_NOTES) => NonBlank(extra_context)
      /\ HasLine(H_API) => \E i \in 1..Len(package.modules) : HasContent(package.modules[i])

\* the API Reference heading alone
C19_ApiPart ==
    (document # None /\ HasLine(H_API))
    => \E i \in 1..Len(package.modules) : HasContent(package.modules[i])

ModuleHeading(mod) == <<"###", SP, TICK>> \o mod.name \o <<TICK>>

----------------------------------------------------------------------------
(* Properties of _walk_package, checked under SpecWalk *)

\* the module names of WalkFiles, file by file
WalkNames == <<M_PKG, M_CORE, M_UTILS, M_SUB, M_API>>

\* name equals prefix or is a dotted descendant of it
UnderPrefix(name, prefix) ==
    \/ name = prefix
    \/ /\ Len(name) > Len(prefix)
       /\ SubSeq(name, 1, Len(prefix)) = prefix
       /\ name[Len(prefix) + 1] = "."

\* the i-th file passes the include and exclude lists of the configuration
Selected(i) ==
    LET inc == SeqRange(walk_config.include_modules)
        exc == SeqRange(walk_config.exclude_modules)
    IN  /\ \/ inc = {}
           \/ \E prefix \in inc : UnderPrefix(WalkNames[i], prefix)
           \/ WalkNames[i] = PkgName
        /\ ~\E prefix \in exc : UnderPrefix(WalkNames[i], prefix)

RECURSIVE ParsedFrom(_)
ParsedFrom(i) ==
    IF i > Len(WalkFiles) THEN <<>>
    ELSE (IF Selected(i) /\ walk_outcomes[i] = "ok" THEN <<WalkNames[i]>> ELSE <<>>)
         \o ParsedFrom(i + 1)

\* C23: a file that fails to parse, or cannot be read or decoded, is skipped:
\* the walk does not raise, and returns exactly the modules of the other
\* selected files, in sorted path order, wherever the failing files are.
C23_FailureIsLocal ==
    walk_status # "idle" =>
        /\ walk_status = "returned"
        /\ ~walk_is_file => walk_modules = ParsedFrom(1)
        /\ walk_is_file =>
             walk_modules = IF walk_outcomes[1] = "ok" THEN <<PkgName>> ELSE <<>>

C23_Witness ==
    /\ walk_status = "returned" /\ ~walk_is_file
    /\ walk_config.include_modules = <<>> /\ walk_config.exclude_modules = <<>>
    /\ walk_outcomes[1] = "UnicodeDecodeError"
    /\ walk_outcomes[3] = "SyntaxError"
    /\ walk_modules = <<M_CORE, M_SUB, M_API>>

----------------------------------------------------------------------------
(* Properties of LibcontextConfig.from_dict, checked under SpecConfig *)

Given(key) == cfg_data[key] # MISSING

\* a recognized option of the dictionary has the wrong shape
WrongShape ==
    \/ Given("include_modules") /\ cfg_data.include_modules.type # "list"
    \/ Given("exclude_modules") /\ cfg_data.exclude_modules.type # "list"
    \/ Given("include_private") /\ cfg_data.include_private.type # "bool"
    \/ Given("extra_context") /\ cfg_data.extra_context.type \notin {"str", "NoneType"}
    \/ Given("max_readme_lines") /\ cfg_data.max_readme_lines.type # "int"

\* the configuration holding the given values, and the defaults for the rest
GivenOrDefault ==
    [ include_modules |-> IF Given("include_modules")
                          THEN cfg_data.include_modules.items ELSE <<>>,
      exclude_modules |-> IF Given("exclude_modules")
                          THEN cfg_data.exclude_modules.items ELSE <<>>,
      include_private |-> IF Given("include_private")
                          THEN cfg_data.include_private.flag ELSE FALSE,
      extra_context |-> IF Given("extra_context") /\ cfg_data.extra_context.type = "str"
                        THEN cfg_data.extra_context.text ELSE None,
      max_readme_lines |-> IF Given("max_readme_lines")
                           THEN cfg_data.max_readme_lines.number ELSE 100 ]

\* C22: from_dict raises TypeError exactly when include_modules or
\* exclude_modules is not a list, include_private is not a bool, extra_context
\* is neither a string nor null, or max_readme_lines is not an integer or is
\* a bool; otherwise it returns the given values, with the defaults
\* [], [], False, None, 100 for the missing keys.
C22_TypeErrorIffWrongShape ==
    cfg_called =>
        /\ cfg_raised \in {"none", "TypeError"}
        /\ cfg_raised = "TypeError" <=> WrongShape
        /\ cfg_raised = "none" => cfg_config = GivenOrDefault

C22_Witness ==
    /\ cfg_called
    /\ cfg_data.max_readme_lines = PyBool(TRUE)
    /\ cfg_data.include_modules = PyList(<<M_CORE>>)
    /\ cfg_data.exclude_modules = MISSING
    /\ cfg_data.include_private = PyBool(TRUE)
    /\ cfg_data.extra_context = PyNone
    /\ cfg_raised = "TypeError"

----------------------------------------------------------------------------
(* Properties of the command line, checked under SpecCli *)

\* extra_context and max_readme_lines of the configuration in effect for a
\* package: the --config file when given, otherwise the section near the
\* package, otherwise the defaults
EffectiveExtra(pkg) ==
    IF argv.config_path = "good" THEN <<"nf">>
    ELSE IF pkg = "p" THEN <<"np">> ELSE None

EffectiveMax(pkg) ==
    IF argv.config_path = "good" THEN 2
    ELSE IF pkg = "p" THEN 1 ELSE 100

\* the render_package call of main for one package used the given values
RenderedWith(k, extra, max_lines) ==
    /\ render_calls[k].extra_context = extra
    /\ render_calls[k].max_readme_lines =
          IF argv.max_readme_lines # PyNone THEN argv.max_readme_lines.number
          ELSE max_lines
    /\ extra # None =>
          Cardinality(Occurrences(all_blocks[k].md,
                                  H_NOTES \o <<NL, NL>> \o extra \o <<NL>>)) = 1

\* C24: the extra_context and max_readme_lines used to render a package are
\* those of the configuration in effect for it, the --config file when
\* present and otherwise the [tool.libcontext] section found near the
\* package, so a package whose own section sets extra_context gets a Notes
\* section with that text, and its max_readme_lines is the truncation bound
\* unless --max-readme-lines is given.
C24_ConfigInEffect ==
    \A k \in 1..Len(render_calls) :
        RenderedWith(k, EffectiveExtra(render_calls[k].name),
                     EffectiveMax(render_calls[k].name))

\* the part of C24 that holds: with --config, the values of that file are used
C24_ConfigFilePart ==
    argv.config_path = "good" =>
        \A k \in 1..Len(render_calls) : RenderedWith(k, <<"nf">>, 2)

\* collecting the package raises: it is not installed, or no --config is
\* given and the section near it is ill-shaped
CollectFails(pkg) ==
    pkg = "gone" \/ (pkg = "bad" /\ argv.config_path = "none")

\* the run meets a package it cannot collect, or an output file it cannot read
RunFails ==
    \/ \E i \in 1..Len(argv.packages) : CollectFails(argv.packages[i])
    \/ argv.output /\ out_before.exists /\ ~out_before.readable

\* C29: if collecting any package fails, or the existing output file cannot
\* be read, the command exits with status 1 and the output file is left
\* exactly as it was, with no block written even for the packages collected
\* before the failure.
C29_AllOrNothing ==
    /\ (cli_pc = "collect" /\ Len(all_blocks) < Len(argv.packages))
         => out_file = out_before
    /\ cli_pc = "done" => ~RunFails /\ exit_status = 0
    /\ (cli_pc = "exited" /\ RunFails) =>
         /\ exit_status = 1
         /\ out_file = out_before
         /\ stdout = <<>>

C29_Witness ==
    /\ argv.packages = <<"p", "gone">>
    /\ argv.output
    /\ out_before = TextFile(<<"x", NL>>)
    /\ Len(all_blocks) = 1
    /\ cli_pc = "exited" /\ exit_status = 1
    /\ out_file = out_before

----------------------------------------------------------------------------
(* Properties of repeated rendering, checked under SpecRepeat *)

----------------------------------------------------------------------------
(* Properties of _first_paragraph, checked under SpecParagraph *)

Max(S) == CHOOSE x \in S : \A y \in S : y <= x

\* a line without its leading and trailing whitespace
Trimmed(line) ==
    LET ink == {i \in 1..Len(line) : line[i] \notin Whitespace}
    IN  IF ink = {} THEN <<>> ELSE SubSeq(line, Min(ink), Max(ink))

\* the lines of the docstring as written, the first of them that is not
\* blank, and the first blank one after it
DocLines == IF docstring = None THEN <<>> ELSE splitlines(docstring)
InkLines == {i \in 1..Len(DocLines) : Trimmed(DocLines[i]) # <<>>}
FirstInk == Min(InkLines)
FirstBlankAfter ==
    Min({i \in FirstInk..Len(DocLines) : Trimmed(DocLines[i]) = <<>>}
        \cup {Len(DocLines) + 1})

----------------------------------------------------------------------------
(* Properties of the variable lists of a module, checked under SpecVariables *)

\* the name has an alphabetic character, and all of them are in upper case
IsConstantName(n) ==
    /\ \E i \in 1..Len(n) :
         n[i] \in UpperWords \cup LowerWords \cup MixedWords \cup UncasedWords
    /\ \A i \in 1..Len(n) : n[i] \notin LowerWords \cup MixedWords \cup UncasedWords

\* the name has a cased character, and all its cased characters are in upper
\* case
IsUpperCasedName(n) ==
    /\ \E i \in 1..Len(n) : n[i] \in UpperWords \cup LowerWords \cup MixedWords
    /\ \A i \in 1..Len(n) : n[i] \notin LowerWords \cup MixedWords

\* the variable is part of the module's public interface
PublicVariable(n) ==
    IF module.all_exports # NoneList THEN n \in SeqRange(module.all_exports)
    ELSE n[1] # "_"

RenderedLines == splitlines(rendered)
LinesEqual(line) == {i \in 1..Len(RenderedLines) : RenderedLines[i] = line}
ConstantsAt == LinesEqual(<<"**Constants:**">>)
VariablesAt == LinesEqual(<<"**Module Variables:**">>)

\* every public variable is rendered once, under Constants if and only if
\* its name passes the test, under Module Variables otherwise, and a variable
\* that is not public is rendered under neither
VariablesPartitioned(IsConstant(_)) ==
    rendered # None =>
        /\ Cardinality(ConstantsAt) <= 1 /\ Cardinality(VariablesAt) <= 1
        /\ \A k \in 1..Len(module.variables) :
             LET n == module.variables[k].name
                 at == LinesEqual(<<"-", SP, TICK>> \o n \o <<TICK>>)
             IN  IF ~PublicVariable(n) THEN at = {}
                 ELSE /\ Cardinality(at) = 1
                      /\ \A i \in at :
                           IF IsConstant(n)
                           THEN /\ \E c \in ConstantsAt : c < i
                                /\ \A v \in VariablesAt : i < v
                           ELSE \E v \in VariablesAt : v < i

----------------------------------------------------------------------------
(* Properties of the empty-module test, checked under SpecPackage *)

\* the module has a public class, function or variable, or a docstring
PublicContent(mod) ==
    \/ \E i \in 1..Len(mod.classes) : mod.classes[i].name[1] # "_"
    \/ \E i \in 1..Len(mod.functions) : mod.functions[i].name[1] # "_"
    \/ \E i \in 1..Len(mod.variables) : mod.variables[i].name[1] # "_"
    \/ (mod.docstring # None /\ Len(mod.docstring) > 0)

\* C28: a module is empty exactly when it has no public content, and only
\* the modules with public content get a section in the document; a module
\* whose classes, functions and variables are all private and that has no
\* docstring gets no section.
C28_EmptyIffNoPublicContent ==
    document # None =>
        \A i \in 1..Len(package.modules) :
            HasLine(ModuleHeading(package.modules[i]))
              <=> PublicContent(package.modules[i])

\* the part of C28 that holds: a module with public content is never empty
C28_PublicContentPart ==
    document # None =>
        \A i \in 1..Len(package.modules) :
            PublicContent(package.modules[i])
              => HasLine(ModuleHeading(package.modules[i]))

----------------------------------------------------------------------------
(* Properties of the README bound, checked under SpecAnyBound *)

\* the number of README lines in the document
ReadmeLinesShown ==
    Cardinality({i \in 1..Len(document) : document[i] \in SeqRange(LineTok)})

\* C30: for every integer max_readme_lines, zero and negative ones included,
\* the Overview section holds at most max(0, max_readme_lines) README lines.
C30_AtMostBound ==
    document # None =>
        ReadmeLinesShown <= IF max_readme_lines > 0 THEN max_readme_lines ELSE 0

\* the part of C30 that holds: the bound is kept by every bound of zero or more
C30_NonNegativePart ==
    (document # None /\ max_readme_lines >= 0) => ReadmeLinesShown <= max_readme_lines

====
